---- MODULE Spec2Model ----
(***************************************************************************)
(* Model of the continueJS media tracker: the client-held media collection *)
(* (the react-query cache under the key ['media', uid]), the mutation      *)
(* hooks of src/src/hooks/useMedia.ts that change it, the API client they  *)
(* call and the route handlers that answer.                                *)
(*                                                                         *)
(* One mutation call runs as the mutation runner of the query library runs *)
(* it with the options the hooks give: onMutate, then mutationFn (run      *)
(* again RetryCount times after a failure), then onSuccess or onError.     *)
(* Everything between two awaits of a remote call is one step.             *)
(***************************************************************************)
EXTENDS Integers, Sequences, FiniteSets, TLC

\* ---------------------------------------------------------------- bounds
\* Number of mutation calls (mutate(...)) made in one behaviour.
MaxMutations == 2

\* mutations: { retry: 1 } of the QueryClient default options.
RetryCount == 1

\* ------------------------------------------------------------ data model
\* A number that is absent (undefined) in the source: a value no number of
\* the model takes.
Absent == -100

\* MediaStatus
InProgress == "InProgress"
Paused == "Paused"
Completed == "Completed"
MediaStatus == {InProgress, Paused, Completed}

\* SeasonInfo; NoSeason stands for an absent seasonInfo.
NoSeason ==
  [currentSeason |-> 0, totalSeasons |-> 0, episodesInSeason |-> 0, seasonEpisodes |-> <<>>]
SeasonOne ==
  [currentSeason |-> 1, totalSeasons |-> 2, episodesInSeason |-> 2, seasonEpisodes |-> <<2, 3>>]
SeasonTwo ==
  [currentSeason |-> 2, totalSeasons |-> 2, episodesInSeason |-> 3, seasonEpisodes |-> <<2, 3>>]

\* MediaItem. name stands for the fields the hooks copy verbatim from the
\* form (name, mediaType, coverArtUrl, external).
MediaItem(id, name, status, dateAdded, datePaused, current, total, seasonInfo) ==
  [mediaItemId |-> id, name |-> name, status |-> status, dateAdded |-> dateAdded,
   datePaused |-> datePaused, current |-> current, total |-> total,
   seasonInfo |-> seasonInfo]

\* The result of Array.find that finds nothing.
NoItem == MediaItem(0, "", InProgress, Absent, Absent, Absent, Absent, NoSeason)

\* EditMediaFormData / AddMediaFormData as the dialogs hand them to the hooks.
FormData(name, status, current, total, seasonInfo) ==
  [name |-> name, status |-> status, currentProgress |-> current,
   totalProgress |-> total, seasonInfo |-> seasonInfo]

NoForm == FormData("", InProgress, Absent, Absent, NoSeason)

\* The forms submitted in the model.
EditForms ==
  { FormData("b", InProgress, 4, 5, SeasonTwo),
    FormData("a", Paused, 1, 5, SeasonOne),
    FormData("b", Completed, Absent, Absent, NoSeason) }

AddForms ==
  { FormData("c", InProgress, 0, 4, NoSeason),
    FormData("d", InProgress, 3, 5, SeasonTwo) }

\* The collection as first loaded: a season-tracked show in progress and a
\* paused book.
InitialItems ==
  << MediaItem(1, "a", InProgress, 1, Absent, 1, 5, SeasonOne),
     MediaItem(2, "e", Paused, 1, 1, 3, 9, NoSeason) >>

\* ------------------------------------------------------ array operations
\* old.some(item => item.mediaItemId === id)
Has(coll, id) == \E i \in 1..Len(coll) : coll[i].mediaItemId = id

\* old.find(item => item.mediaItemId === id)
Find(coll, id) ==
  IF Has(coll, id)
    THEN coll[CHOOSE i \in 1..Len(coll) :
                /\ coll[i].mediaItemId = id
                /\ \A j \in 1..(i - 1) : coll[j].mediaItemId # id]
    ELSE NoItem

\* old.map(item => item.mediaItemId === id ? new : item)
MapReplace(coll, id, new) ==
  [i \in 1..Len(coll) |-> IF coll[i].mediaItemId = id THEN new ELSE coll[i]]

\* old.filter(item => item.mediaItemId !== id)
FilterOut(coll, id) == SelectSeq(coll, LAMBDA it : it.mediaItemId # id)

\* value || 0
OrZero(n) == IF n = Absent THEN 0 ELSE n

\* ------------------------------------------------------------------ state
VARIABLES
  user,      \* useAuth().user is set (an owner session is active)
  cache,     \* queryClient data under ['media', uid]: the held collection
  query,     \* the useMedia query's fetch: phase and the response in flight
  server,    \* the documents of users/{uid}/media in the store
  muts,      \* the mutation calls made so far, in call order
  nextId,    \* the next value uuidv4() returns
  shown,     \* a media card: the item snapshot it shows and the texts rendered
  dialog,    \* the state of the EditMediaDialog component
  debounce,  \* useDebouncedUpdateMediaStatus: its refs and its batch mutations
  limiter    \* the rate limiter's clock and its rateLimitStore

vars == <<user, cache, query, server, muts, nextId>>

\* The card and the dialog, which the mutation hooks never touch.
seasonVars == <<shown, dialog>>

\* No card rendered and the edit dialog not mounted.
NoShown == [rendered |-> FALSE]
NoDialog == [open |-> FALSE]

\* The debounced hook and the rate limiter, which the other hooks, the card
\* and the dialog never touch.
sideVars == <<debounce, limiter>>

\* The debounced hook not mounted; no request seen by the middleware.
NoDebounce == [mounted |-> FALSE]
NoLimiter == [running |-> FALSE]

\* ------------------------------------------------------------ API client
\* A request body; item carries Absent / NoSeason for what the body omits.
Request(method, item) == [method |-> method, item |-> item]

NoRequest == Request("none", NoItem)

\* ApiService.updateMedia: the Partial<MediaItem> it serialises.
ApiUpdateBody(id, formData) ==
  MediaItem(id, formData.name, formData.status, Absent, Absent,
            formData.currentProgress, formData.totalProgress, NoSeason)

\* What one run of a mutationFn does: throws before any remote call
\* (error # "none"), or issues request and will return result.
Attempt(error, request, result) ==
  [error |-> error, request |-> request, result |-> result]

Throw(error) == Attempt(error, NoRequest, NoItem)

\* --------------------------------------------------------- hooks: update
\* The item useUpdateMedia builds from the current item and the form
\* (updatedMedia in mutationFn, optimisticUpdate in onMutate).
UpdatedMedia(currentMedia, data, t) ==
  [currentMedia EXCEPT
     !.name = data.name,
     !.status = data.status,
     !.current = OrZero(data.currentProgress),
     !.total = data.totalProgress,
     !.datePaused = IF data.status = Paused THEN t ELSE currentMedia.datePaused]

\* A mutationFn that goes to the API without looking at the session.
UpdateMutationFnNoAuth(u, coll, id, data, t) ==
  IF ~Has(coll, id) THEN Throw("not found")
  ELSE Attempt("none",
               Request("PUT", ApiUpdateBody(id, FormData(data.name, data.status,
                              data.currentProgress, data.totalProgress, NoSeason))),
               UpdatedMedia(Find(coll, id), data, t))

\* useUpdateMedia.mutationFn
UpdateMutationFn(u, coll, id, data, t) ==
  IF ~u THEN Throw("not authenticated")
  ELSE IF ~Has(coll, id) THEN Throw("not found")
  ELSE Attempt("none",
               Request("PUT", ApiUpdateBody(id, FormData(data.name, data.status,
                              data.currentProgress, data.totalProgress, NoSeason))),
               UpdatedMedia(Find(coll, id), data, t))

\* useUpdateMedia.onMutate: the cache after the optimistic change.
UpdateOnMutate(coll, id, data, t) ==
  IF Has(coll, id)
    THEN MapReplace(coll, id, UpdatedMedia(Find(coll, id), data, t))
    ELSE coll

\* --------------------------------------------------------- hooks: status
\* The item useUpdateMediaStatus builds (mutationFn and onMutate).
StatusUpdated(item, newStatus, t) ==
  [item EXCEPT
     !.status = newStatus,
     !.datePaused = IF newStatus = Paused THEN t ELSE item.datePaused]

\* useUpdateMediaStatus.mutationFn
StatusMutationFn(u, coll, id, newStatus, t) ==
  IF ~u THEN Throw("not authenticated")
  ELSE IF ~Has(coll, id) THEN Throw("local cache")
  ELSE LET currentMedia == Find(coll, id) IN
       Attempt("none",
               Request("PUT", ApiUpdateBody(currentMedia.mediaItemId,
                              FormData(currentMedia.name, newStatus, currentMedia.current,
                                       currentMedia.total, NoSeason))),
               StatusUpdated(currentMedia, newStatus, t))

\* useUpdateMediaStatus.onMutate
StatusOnMutate(coll, id, newStatus, t) ==
  [i \in 1..Len(coll) |->
     IF coll[i].mediaItemId = id THEN StatusUpdated(coll[i], newStatus, t) ELSE coll[i]]

\* --------------------------------------------------------- hooks: delete
\* useDeleteMedia.mutationFn
DeleteMutationFn(u, id) ==
  IF ~u THEN Throw("not authenticated")
  ELSE Attempt("none", Request("DELETE", [NoItem EXCEPT !.mediaItemId = id]),
               [NoItem EXCEPT !.mediaItemId = id])

\* useDeleteMedia.onMutate
DeleteOnMutate(coll, id) == FilterOut(coll, id)

\* ------------------------------------------------------------ hooks: add
\* The MediaItem useAddMedia.mutationFn builds from the form.
NewMediaItem(id, data, t) ==
  MediaItem(id, data.name, InProgress, t, Absent,
            OrZero(data.currentProgress), data.totalProgress, NoSeason)

\* useAddMedia.mutationFn
AddMutationFn(u, id, data, t) ==
  IF ~u THEN Throw("not authenticated")
  ELSE Attempt("none", Request("POST", NewMediaItem(id, data, t)),
               NewMediaItem(id, data, t))

\* ---------------------------------------------------------- hooks: errors
\* A failure handler that leaves the optimistic change in place.
OnErrorCacheKeeps(m, u, coll) == coll

\* A failure handler that puts a deleted item back at the end.
OnErrorCacheReinserts(m, u, coll) ==
  IF m.op # "add" /\ m.hasContext /\ u
    THEN IF m.op = "delete" /\ Has(m.previousMedia, m.mediaId)
           THEN Append(FilterOut(coll, m.mediaId), Find(m.previousMedia, m.mediaId))
           ELSE m.previousMedia
    ELSE coll

\* onError of useUpdateMedia, useUpdateMediaStatus and useDeleteMedia:
\* the cache after the rollback. useAddMedia.onError leaves the cache alone.
OnErrorCache(m, u, coll) ==
  IF m.op # "add" /\ m.hasContext /\ u THEN m.previousMedia ELSE coll

\* Whether onError calls queryClient.invalidateQueries: only
\* useUpdateMediaStatus does, for a message with '404' or 'local cache'.
OnErrorInvalidates(m, error) ==
  m.op = "status" /\ error \in {"404", "local cache"}

\* onSuccess: the cache after the hook's setQueryData.
OnSuccessCache(m, coll) ==
  CASE m.op = "add" -> Append(coll, m.result)
    [] m.op = "delete" -> FilterOut(coll, m.result.mediaItemId)
    [] OTHER -> MapReplace(coll, m.result.mediaItemId, m.result)

\* ------------------------------------------------------------ the query
Idle == [phase |-> "idle", data |-> <<>>]
Fetching == [phase |-> "fetching", data |-> <<>>]

\* queryClient.cancelQueries: a fetch in flight is dropped.
CancelQueries(q) == Idle

\* ----------------------------------------------------------- the server
HasDoc(docs, id) == \E d \in docs : d.mediaItemId = id

Doc(docs, id) == CHOOSE d \in docs : d.mediaItemId = id

\* PUT /api/media/[id]: the document after docRef.set(updateData, {merge}).
\* Fields the body omits keep the stored value; datePaused follows the
\* transition into and out of Paused.
PutDoc(old, body, t) ==
  [old EXCEPT
     !.name = body.name,
     !.status = body.status,
     !.current = IF body.current = Absent THEN old.current ELSE body.current,
     !.total = IF body.total = Absent THEN old.total ELSE body.total,
     !.seasonInfo = IF body.seasonInfo = NoSeason THEN old.seasonInfo ELSE body.seasonInfo,
     !.datePaused = IF body.status = Paused /\ old.status # Paused THEN t
                    ELSE IF body.status # Paused /\ old.status = Paused THEN Absent
                    ELSE old.datePaused]

\* POST /api/media: the document stored.
PostDoc(body, t) == [body EXCEPT !.dateAdded = t]

\* The status of the response to a request, and the documents afterwards.
ServerStatus(docs, req) ==
  IF req.method \in {"PUT", "DELETE"} /\ ~HasDoc(docs, req.item.mediaItemId)
    THEN "404" ELSE "ok"

ServerDocs(docs, req, t) ==
  CASE ServerStatus(docs, req) = "404" -> docs
    [] req.method = "PUT" ->
         (docs \ {Doc(docs, req.item.mediaItemId)})
           \cup {PutDoc(Doc(docs, req.item.mediaItemId), req.item, t)}
    [] req.method = "DELETE" -> docs \ {Doc(docs, req.item.mediaItemId)}
    [] OTHER ->
         {d \in docs : d.mediaItemId # req.item.mediaItemId} \cup {PostDoc(req.item, t)}

\* GET /api/media: the list returned, in document-id order; a progress
\* value of 0 is read through `current || Current` and comes back undefined.
RECURSIVE MediaList(_)
MediaList(docs) ==
  IF docs = {} THEN <<>>
  ELSE LET d == CHOOSE x \in docs : \A y \in docs : x.mediaItemId <= y.mediaItemId
       IN <<[d EXCEPT !.current = IF d.current = 0 THEN Absent ELSE d.current]>>
            \o MediaList(docs \ {d})

\* ------------------------------------------------------- mutation calls
\* new Date() during the handling of call k, on the client or in the route
\* handler: the stamp of that call. The collection as loaded carries stamp 1.
CallTime(k) == k + 1

\* new Date() in the route handler that answers call k: the server's clock
\* is not the client's, so its stamps are none of the client's.
ServerTime(k) == CallTime(k) + MaxMutations + 1

\* One mutate(...) call. before and overlapped are history: the collection
\* as the call found it, and whether another call was unsettled during it.
Mutation(op, id, data, hasContext, previousMedia, before, overlapped) ==
  [op |-> op, mediaId |-> id, data |-> data, phase |-> "new", failureCount |-> 0,
   hasContext |-> hasContext, previousMedia |-> previousMedia,
   request |-> NoRequest, response |-> "none", result |-> NoItem,
   error |-> "none", writes |-> 0, invalidated |-> FALSE,
   before |-> before, overlapped |-> overlapped]

Settled(m) == m.phase \in {"success", "error"}

AllSettled == \A k \in 1..Len(muts) : Settled(muts[k])

\* The hook's mutationFn for call m, run on collection coll at time t.
MutationFn(m, u, coll, t, uuid) ==
  CASE m.op = "add" -> AddMutationFn(u, uuid, m.data, t)
    [] m.op = "update" -> UpdateMutationFn(u, coll, m.mediaId, m.data, t)
    [] m.op = "status" -> StatusMutationFn(u, coll, m.mediaId, m.data.status, t)
    [] OTHER -> DeleteMutationFn(u, m.mediaId)

\* An onMutate that also puts a new item in the collection at once.
OnMutateCacheAdds(op, u, coll, id, data, t) ==
  IF ~u THEN coll
  ELSE CASE op = "update" -> UpdateOnMutate(coll, id, data, t)
         [] op = "status" -> StatusOnMutate(coll, id, data.status, t)
         [] op = "delete" -> DeleteOnMutate(coll, id)
         [] OTHER -> Append(coll, NewMediaItem(id, data, t))

\* The hooks' onMutate (useAddMedia has none): the collection after it.
OnMutateCache(op, u, coll, id, data, t) ==
  IF ~u THEN coll
  ELSE CASE op = "update" -> UpdateOnMutate(coll, id, data, t)
         [] op = "status" -> StatusOnMutate(coll, id, data.status, t)
         [] op = "delete" -> DeleteOnMutate(coll, id)
         [] OTHER -> coll

\* The retryer after mutationFn rejected with error: it waits and runs
\* mutationFn again while failureCount < retry, else onError runs.
Rejected(k, ms, error, coll, q) ==
  IF ms[k].failureCount < RetryCount
    THEN /\ muts' = [ms EXCEPT ![k].phase = "waiting",
                               ![k].failureCount = @ + 1,
                               ![k].error = error]
         /\ cache' = coll
         /\ query' = q
    ELSE /\ muts' = [ms EXCEPT ![k].phase = "error",
                               ![k].error = error,
                               ![k].invalidated = OnErrorInvalidates(ms[k], error)]
         /\ cache' = OnErrorCache(ms[k], user, coll)
         /\ query' = IF OnErrorInvalidates(ms[k], error) THEN Fetching ELSE q

\* One run of mutationFn for call k up to its remote call.
RunMutationFn(k, ms, coll, q) ==
  LET a == MutationFn(ms[k], user, coll, CallTime(k), nextId) IN
  /\ nextId' = IF ms[k].op = "add" /\ user THEN nextId + 1 ELSE nextId
  /\ IF a.error = "none"
       THEN /\ muts' = [ms EXCEPT ![k].phase = "inflight",
                                  ![k].request = a.request,
                                  ![k].result = a.result,
                                  ![k].writes = @ + 1,
                                  ![k].mediaId = a.result.mediaItemId]
            /\ cache' = coll
            /\ query' = q
       ELSE Rejected(k, ms, a.error, coll, q)

\* mutation.mutate(variables): onMutate, then the first run of mutationFn.
Mutate(op, id, data) ==
  /\ Len(muts) < MaxMutations
  /\ LET ctx == user /\ op # "add"
         m == Mutation(op, id, data, ctx, IF ctx THEN cache ELSE <<>>, cache, ~AllSettled)
         ms == Append([k \in 1..Len(muts) |->
                         IF Settled(muts[k]) THEN muts[k]
                         ELSE [muts[k] EXCEPT !.overlapped = TRUE]], m)
     IN RunMutationFn(Len(ms), ms, OnMutateCache(op, user, cache, id, data, CallTime(Len(muts) + 1)),
                      IF ctx THEN CancelQueries(query) ELSE query)
  /\ UNCHANGED <<user, server>>

\* The items a card on the board can stand for: those of the collection as
\* loaded (a card may outlive its item) and those in the collection now.
TargetIds ==
  {InitialItems[i].mediaItemId : i \in 1..Len(InitialItems)}
    \cup {cache[i].mediaItemId : i \in 1..Len(cache)}

\* handleAddMedia
AddItem == \E data \in AddForms : Mutate("add", 0, data)

\* handleUpdateMedia
UpdateItem == \E id \in TargetIds, data \in EditForms : Mutate("update", id, data)

\* handleUpdateStatus
UpdateStatus ==
  \E id \in TargetIds, st \in MediaStatus :
    Mutate("status", id, [NoForm EXCEPT !.status = st])

\* handleDeleteMedia
DeleteItem == \E id \in TargetIds : Mutate("delete", id, NoForm)

\* The route handler answers the request of call k ("ok" or "404"), or the
\* call of fetch() fails ("failed"): the request never reached the handler,
\* or the handler ran and its response was lost.
ServerReply(k) ==
  /\ muts[k].phase = "inflight"
  /\ \E r \in {ServerStatus(server, muts[k].request), "failed"}, handled \in BOOLEAN :
       /\ r # "failed" => handled
       /\ muts' = [muts EXCEPT ![k].phase = "replied", ![k].response = r]
       /\ server' = IF handled THEN ServerDocs(server, muts[k].request, ServerTime(k))
                    ELSE server
  /\ UNCHANGED <<user, cache, query, nextId>>

\* The response of call k arrives: onSuccess, or the retryer's decision.
Deliver(k) ==
  /\ muts[k].phase = "replied"
  /\ IF muts[k].response = "ok"
       THEN /\ muts' = [muts EXCEPT ![k].phase = "success"]
            /\ cache' = OnSuccessCache(muts[k], cache)
            /\ query' = query
       ELSE Rejected(k, muts, muts[k].response, cache, query)
  /\ UNCHANGED <<user, server, nextId>>

\* The retry delay of call k has passed: mutationFn runs again.
Retry(k) ==
  /\ muts[k].phase = "waiting"
  /\ RunMutationFn(k, muts, cache, query)
  /\ UNCHANGED <<user, server>>

\* ------------------------------------------------------ the query's fetch
\* The fetches modelled are the ones the hooks start (invalidateQueries).
\* GET /api/media answers the fetch in flight.
QueryReply ==
  /\ query.phase = "fetching"
  /\ query' = [phase |-> "replied", data |-> MediaList(server)]
  /\ UNCHANGED <<user, cache, server, muts, nextId>>

\* The fetched list replaces the held collection.
QueryDeliver ==
  /\ query.phase = "replied"
  /\ cache' = query.data
  /\ query' = Idle
  /\ UNCHANGED <<user, server, muts, nextId>>

\* ------------------------------------------------------- specification
\* The documents behind the held collection. The first item was either
\* loaded from its document or added in this session: then the collection
\* holds the dateAdded useAddMedia gave it and the document the route's.
StoredDocs(inSession) ==
  {IF i = 1 /\ inSession
     THEN PostDoc(InitialItems[i], ServerTime(0))
     ELSE InitialItems[i] : i \in 1..Len(InitialItems)}

Init ==
  /\ user \in BOOLEAN
  /\ cache = InitialItems
  /\ query = Idle
  /\ server \in {StoredDocs(inSession) : inSession \in BOOLEAN}
  /\ muts = <<>>
  /\ nextId = Len(InitialItems) + 1
  /\ shown = NoShown
  /\ dialog = NoDialog
  /\ debounce = NoDebounce
  /\ limiter = NoLimiter

Next ==
  \/ AddItem /\ UNCHANGED <<seasonVars, sideVars>>
  \/ UpdateItem /\ UNCHANGED <<seasonVars, sideVars>>
  \/ UpdateStatus /\ UNCHANGED <<seasonVars, sideVars>>
  \/ DeleteItem /\ UNCHANGED <<seasonVars, sideVars>>
  \/ \E k \in 1..Len(muts) : ServerReply(k) /\ UNCHANGED <<seasonVars, sideVars>>
  \/ \E k \in 1..Len(muts) : Deliver(k) /\ UNCHANGED <<seasonVars, sideVars>>
  \/ \E k \in 1..Len(muts) : Retry(k) /\ UNCHANGED <<seasonVars, sideVars>>
  \/ QueryReply /\ UNCHANGED <<seasonVars, sideVars>>
  \/ QueryDeliver /\ UNCHANGED <<seasonVars, sideVars>>

Spec == Init /\ [][Next]_vars

\* ================================================================ claims
\* The position of item id in coll (0 when it is not there).
IndexOf(coll, id) ==
  IF Has(coll, id)
    THEN CHOOSE i \in 1..Len(coll) :
           /\ coll[i].mediaItemId = id
           /\ \A j \in 1..(i - 1) : coll[j].mediaItemId # id
    ELSE 0

Calls == 1..Len(muts)

\* This step makes a new mutation call.
CalledNow == Len(muts') = Len(muts) + 1

\* This step runs the failure handler (onError) of call k.
FailsNow(k) == ~Settled(muts[k]) /\ muts'[k].phase = "error"

\* This step runs the success handler (onSuccess) of call k.
SucceedsNow(k) == ~Settled(muts[k]) /\ muts'[k].phase = "success"

\* Call k issued a remote write and no other call was unsettled during it.
Alone(k) == muts[k].writes >= 1 /\ ~muts[k].overlapped

\* C1: when the remote write of a single updateItem call fails (no other
\* mutation in flight during the call), the collection after the failure
\* handler equals the collection as it was just before the optimistic change.
C1_UpdateRollbackExact ==
  [][\A k \in Calls :
       (FailsNow(k) /\ muts[k].op = "update" /\ muts[k].writes >= 1
          /\ ~muts'[k].overlapped)
         => cache' = muts[k].before]_vars

\* C1 witness: a lone updateItem changed its item optimistically, its write
\* failed, and the collection is the pre-mutation one again.
C1_Witness ==
  \E k \in Calls :
    /\ muts[k].op = "update" /\ muts[k].phase = "error" /\ Alone(k)
    /\ UpdateOnMutate(muts[k].before, muts[k].mediaId, muts[k].data, CallTime(k))
         # muts[k].before
    /\ cache = muts[k].before

\* C2: the failure and rollback of a mutation on item A never changes the
\* entry of another item B in the held collection.
C2_RollbackLeavesOthers ==
  [][\A k \in Calls :
       (FailsNow(k) /\ muts[k].op \in {"update", "status", "delete"})
         => \A b \in 1..(nextId - 1) :
              b # muts[k].mediaId
                => /\ Has(cache', b) = Has(cache, b)
                   /\ Find(cache', b) = Find(cache, b)]_vars

\* C3: when no mutation is in flight, the collection shows no effect of a
\* mutation whose write failed; in particular, when every call made so far
\* failed (and none started a refetch), the collection is the one the calls
\* started from.
C3_FailedLeaveNoTrace ==
  (/\ AllSettled
   /\ \A k \in Calls : muts[k].phase = "error" /\ ~muts[k].invalidated)
    => cache = InitialItems

\* The item carries every field of the form, seasonInfo included.
CarriesForm(item, data) ==
  /\ item.name = data.name
  /\ item.status = data.status
  /\ item.current = OrZero(data.currentProgress)
  /\ item.total = data.totalProgress
  /\ item.seasonInfo = data.seasonInfo

\* C4: after updateItem(patch) is applied optimistically, and after its
\* write succeeds, the item equals the patch in every field the patch
\* carries, seasonInfo included, and the remote write carries that seasonInfo.
C4_PatchApplied ==
  \A k \in Calls :
    (/\ k = Len(muts) /\ muts[k].op = "update" /\ ~muts[k].overlapped
     /\ muts[k].phase \in {"inflight", "success"}
     /\ muts[k].data.seasonInfo # NoSeason)
      => /\ CarriesForm(Find(cache, muts[k].mediaId), muts[k].data)
         /\ muts[k].request.item.seasonInfo = muts[k].data.seasonInfo

\* Call k is an updateStatus of an item that the call before it paused.
AfterPause(k) ==
  /\ k > 1
  /\ muts[k - 1].op = "status" /\ muts[k - 1].data.status = Paused
  /\ muts[k - 1].phase = "success" /\ muts[k - 1].mediaId = muts[k].mediaId

\* C5: updateStatus to Paused sets datePaused to the time of the call, and
\* a following updateStatus of that item to another status leaves datePaused
\* absent, in the optimistic state and after the write succeeds.
C5_DatePausedFollowsStatus ==
  \A k \in Calls :
    (/\ k = Len(muts) /\ muts[k].op = "status" /\ ~muts[k].overlapped
     /\ Has(muts[k].before, muts[k].mediaId)
     /\ muts[k].phase \in {"inflight", "success"})
      => /\ muts[k].data.status = Paused
              => Find(cache, muts[k].mediaId).datePaused = CallTime(k)
         /\ (muts[k].data.status # Paused /\ AfterPause(k))
              => Find(cache, muts[k].mediaId).datePaused = Absent

\* C6: an updateStatus whose item is not in the held collection fails,
\* issues no remote write and triggers a refetch of the collection.
C6_LocalMissFailsUnsent ==
  \A k \in Calls :
    (user /\ muts[k].op = "status" /\ ~Has(muts[k].before, muts[k].mediaId))
      => /\ muts[k].writes = 0
         /\ muts[k].phase # "success"
         /\ muts[k].phase = "error" => muts[k].invalidated

\* C7: whenever the store rejects the write of an updateItem, updateStatus
\* or deleteItem as not found, the failure handling triggers a refetch.
C7_NotFoundResyncs ==
  \A k \in Calls :
    (muts[k].op \in {"update", "status", "delete"}
       /\ muts[k].phase = "error" /\ muts[k].error = "404")
      => muts[k].invalidated

\* C8 as stated: between the call of addItem and the settling of its write
\* the new item is in the collection, and after a failed write it is not.
C8_AddIsOptimistic ==
  \A k \in Calls :
    (user /\ muts[k].op = "add")
      => /\ muts[k].phase \in {"inflight", "replied"} => Has(cache, muts[k].mediaId)
         /\ muts[k].phase = "error" => ~Has(cache, muts[k].mediaId)

\* C8 amended: addItem does not touch the collection until its write
\* succeeds: the call, a retry and the failure handler leave the collection
\* as it is, and the success handler appends the item the write created.
C8_AddAppendsOnSuccess ==
  [][/\ (CalledNow /\ muts'[Len(muts')].op = "add") => cache' = cache
     /\ \A k \in Calls :
          muts[k].op = "add"
            => /\ SucceedsNow(k) => cache' = Append(cache, muts[k].result)
               /\ (muts'[k].phase # muts[k].phase /\ ~SucceedsNow(k))
                    => cache' = cache]_vars

\* C8 witness: an addItem whose write failed; the item never entered the
\* collection.
C8_Witness ==
  \E k \in Calls :
    /\ muts[k].op = "add" /\ muts[k].phase = "error" /\ muts[k].writes >= 1
    /\ ~Has(cache, muts[k].mediaId)

\* C9: deleteItem removes the item at the call; when its write fails and no
\* other mutation overlapped, the item is back at the index it had, with
\* the fields it had.
C9_DeleteRestoresInPlace ==
  [][/\ (CalledNow /\ user /\ muts'[Len(muts')].op = "delete")
          => ~Has(cache', muts'[Len(muts')].mediaId)
     /\ \A k \in Calls :
          (/\ FailsNow(k) /\ muts[k].op = "delete" /\ muts[k].writes >= 1
           /\ ~muts'[k].overlapped /\ Has(muts[k].before, muts[k].mediaId))
            => /\ IndexOf(cache', muts[k].mediaId)
                    = IndexOf(muts[k].before, muts[k].mediaId)
               /\ Find(cache', muts[k].mediaId)
                    = Find(muts[k].before, muts[k].mediaId)
               /\ Len(cache') = Len(muts[k].before)]_vars

\* C9 witness: a lone deleteItem of the first of several items failed and
\* the item is back in first place.
C9_Witness ==
  \E k \in Calls :
    /\ muts[k].op = "delete" /\ muts[k].phase = "error" /\ Alone(k)
    /\ Len(muts[k].before) > 1
    /\ IndexOf(muts[k].before, muts[k].mediaId) = 1
    /\ IndexOf(cache, muts[k].mediaId) = 1

\* C10: with no owner session, addItem, updateItem, updateStatus and
\* deleteItem are rejected, no remote call is issued and the collection is
\* what it was before the call.
C10_NoSessionRejected ==
  ~user =>
    /\ server \in {StoredDocs(inSession) : inSession \in BOOLEAN}
    /\ \A k \in Calls :
         /\ muts[k].writes = 0 /\ muts[k].request = NoRequest
         /\ cache = muts[k].before
         /\ muts[k].phase \in {"waiting", "error"}
         /\ muts[k].error = "not authenticated"

\* C10 witness: two calls made without a session, both rejected.
C10_Witness ==
  /\ ~user /\ Len(muts) >= 2 /\ AllSettled
  /\ \E k \in Calls : muts[k].op = "add"
  /\ \E k \in Calls : muts[k].op = "delete"
  /\ cache = InitialItems

\* ================================================== season conversions
\* Bounds of the season model: the seasons of a per-season table, the
\* episodes of one season, and the progress counter of an item.
MaxSeasons == 2
MaxEpisodes == 2
MaxProgress == 5

\* MediaType
Book == "Book"
Show == "Show"
Anime == "Anime"
Manga == "Manga"
MediaType == {Book, Show, Anime, Manga}

\* The per-season tables (seasonInfo.seasonEpisodes); <<>> is an absent
\* table (an empty array is not among the inputs). A count of 0 is what a
\* catalog gives for a season with no episodes announced.
SeasonTables ==
  UNION {[1..n -> 0..MaxEpisodes] : n \in 0..MaxSeasons}

\* SeasonInfo values; a number field that is 0 is absent or 0, which every
\* reader of the field treats alike (value || default, value && ...).
SeasonInfos ==
  [currentSeason : 0..(MaxSeasons + 1), totalSeasons : 0..MaxSeasons,
   episodesInSeason : 0..MaxEpisodes, seasonEpisodes : SeasonTables]

\* The part of a MediaItem the display functions read. seasons is
\* additionalProgress.seasons.current, which only documents stored before
\* season tracking carry.
ShownItem(mediaType, current, total, seasonInfo) ==
  [mediaType |-> mediaType, current |-> current, total |-> total,
   seasonInfo |-> seasonInfo, seasons |-> Absent]

\* The item with the legacy season of such a document.
LegacyItem(item, season) == [item EXCEPT !.seasons = season]

\* The sum that takes one season more: slice(0, n + 1).
RECURSIVE SumThrough(_, _)
SumThrough(seasonEps, n) ==
  IF n < 0 \/ Len(seasonEps) = 0 THEN 0
  ELSE LET m == IF n + 1 < Len(seasonEps) THEN n + 1 ELSE Len(seasonEps)
       IN  seasonEps[m] + SumThrough(seasonEps, m - 2)

\* seasonEps.slice(0, n).reduce((sum, eps) => sum + eps, 0)
RECURSIVE SumFirst(_, _)
SumFirst(seasonEps, n) ==
  IF n <= 0 \/ Len(seasonEps) = 0 THEN 0
  ELSE LET m == IF n < Len(seasonEps) THEN n ELSE Len(seasonEps)
       IN  seasonEps[m] + SumFirst(seasonEps, m - 1)

\* The walk with a season's last episode counted into the next season.
RECURSIVE SeasonWalkStrict(_, _, _, _)
SeasonWalkStrict(absoluteEpisode, seasonEps, i, episodeCount) ==
  IF i > Len(seasonEps)
    THEN [season |-> Len(seasonEps), episode |-> seasonEps[Len(seasonEps)],
          episodesInSeason |-> seasonEps[Len(seasonEps)]]
  ELSE IF absoluteEpisode < episodeCount + seasonEps[i]
    THEN [season |-> i, episode |-> absoluteEpisode - episodeCount,
          episodesInSeason |-> seasonEps[i]]
    ELSE SeasonWalkStrict(absoluteEpisode, seasonEps, i + 1, episodeCount + seasonEps[i])

\* The walk that counts on into a season after the last of the table.
RECURSIVE SeasonWalkOpen(_, _, _, _)
SeasonWalkOpen(absoluteEpisode, seasonEps, i, episodeCount) ==
  IF i > Len(seasonEps)
    THEN [season |-> Len(seasonEps) + 1, episode |-> absoluteEpisode - episodeCount,
          episodesInSeason |-> seasonEps[Len(seasonEps)]]
  ELSE IF absoluteEpisode <= episodeCount + seasonEps[i]
    THEN [season |-> i, episode |-> absoluteEpisode - episodeCount,
          episodesInSeason |-> seasonEps[i]]
    ELSE SeasonWalkOpen(absoluteEpisode, seasonEps, i + 1, episodeCount + seasonEps[i])

\* The for loop of calculateCurrentSeasonAndEpisode from index i (1-based)
\* with episodeCount episodes counted so far.
RECURSIVE SeasonWalk(_, _, _, _)
SeasonWalk(absoluteEpisode, seasonEps, i, episodeCount) ==
  IF i > Len(seasonEps)
    THEN [season |-> Len(seasonEps), episode |-> seasonEps[Len(seasonEps)],
          episodesInSeason |-> seasonEps[Len(seasonEps)]]
  ELSE IF absoluteEpisode <= episodeCount + seasonEps[i]
    THEN [season |-> i, episode |-> absoluteEpisode - episodeCount,
          episodesInSeason |-> seasonEps[i]]
    ELSE SeasonWalk(absoluteEpisode, seasonEps, i + 1, episodeCount + seasonEps[i])

\* value || 1 and value || 12
OrOne(n) == IF n = Absent \/ n = 0 THEN 1 ELSE n
OrTwelve(n) == IF n = Absent \/ n = 0 THEN 12 ELSE n

\* Its callers pass an item whose seasonInfo has a currentSeason or more
\* than one season, never a seasonInfo with every field empty.
calculateCurrentSeasonAndEpisode(item) ==
  IF item.seasonInfo = NoSeason
    THEN [season |-> 1, episode |-> OrZero(item.current), episodesInSeason |-> 12]
  ELSE IF Len(item.seasonInfo.seasonEpisodes) > 0
    THEN SeasonWalk(OrZero(item.current), item.seasonInfo.seasonEpisodes, 1, 0)
    ELSE [season |-> OrOne(item.seasonInfo.currentSeason),
          episode |-> OrOne(item.current),
          episodesInSeason |-> OrTwelve(item.seasonInfo.episodesInSeason)]

\* `S${season}E${episode} of ${episodesInSeason}`
SeasonText(r) ==
  "S" \o ToString(r.season) \o "E" \o ToString(r.episode) \o " of "
      \o ToString(r.episodesInSeason)

\* The text whose Show branch is the Anime branch.
getPrimaryProgressTextAlike(item) ==
  LET current == OrZero(item.current)
      total == OrZero(item.total)
      plain(word) == word \o ToString(current) \o " of " \o ToString(total)
  IN  CASE item.mediaType = Book -> plain("Page ")
        [] item.mediaType = Manga -> plain("Chapter ")
        [] item.mediaType \in {Anime, Show} ->
             IF item.seasonInfo.currentSeason # 0
               THEN SeasonText(calculateCurrentSeasonAndEpisode(item))
               ELSE plain("Episode ")

getPrimaryProgressText(item) ==
  LET current == OrZero(item.current)
      total == OrZero(item.total)
      plain(word) == word \o ToString(current) \o " of " \o ToString(total)
      fallbackSeason == IF item.seasons = Absent THEN 1 ELSE item.seasons
  IN  CASE item.mediaType = Book -> plain("Page ")
        [] item.mediaType = Anime ->
             IF item.seasonInfo.currentSeason # 0
               THEN SeasonText(calculateCurrentSeasonAndEpisode(item))
               ELSE plain("Episode ")
        [] item.mediaType = Manga -> plain("Chapter ")
        [] item.mediaType = Show ->
             IF item.seasonInfo.currentSeason # 0
               THEN SeasonText(calculateCurrentSeasonAndEpisode(item))
               ELSE "Season " \o ToString(fallbackSeason)
                      \o ", Episode " \o ToString(current)

\* Math.round(percentage * 10) / 10 for percentage = (num / den) * 100, in
\* tenths of a percent: Math.round rounds a tie up. Doubles give the same
\* value as the exact quotient for every num and den within the bounds.
RoundTenths(num, den) == (2000 * num + den) \div (2 * den)

\* The percentage with an absent total read as 1 and no season branch.
getProgressPercentageUnguarded(item) ==
  LET current == OrZero(item.current)
      total == IF item.total = Absent THEN 1 ELSE item.total
  IN  IF total <= 0 THEN 0 ELSE RoundTenths(current, total)

\* getProgressPercentage, in tenths of a percent (338 is 33.8).
getProgressPercentage(item) ==
  LET current == OrZero(item.current)
      total == OrZero(item.total)
      si == item.seasonInfo
      plain == IF total <= 0 THEN 0 ELSE RoundTenths(current, total)
  IN  IF item.mediaType \in {Show, Anime} /\ si # NoSeason
        THEN IF Len(si.seasonEpisodes) > 0
               THEN plain
             ELSE IF si.currentSeason # 0 /\ si.episodesInSeason # 0 /\ si.totalSeasons # 0
               THEN IF si.totalSeasons * si.episodesInSeason <= 0 THEN 0
                    ELSE RoundTenths((si.currentSeason - 1) * si.episodesInSeason + current,
                                     si.totalSeasons * si.episodesInSeason)
               ELSE plain
        ELSE plain

\* a % b of the source language for b > 0: the sign of the dividend.
JsRem(a, b) == IF a >= 0 THEN a % b ELSE 0 - ((0 - a) % b)

calculateSeasonStartingOffset(seasonInfo) ==
  (OrOne(seasonInfo.currentSeason) - 1) * OrTwelve(seasonInfo.episodesInSeason)

calculateTotalShowEpisodes(seasonInfo) ==
  OrOne(seasonInfo.totalSeasons) * OrTwelve(seasonInfo.episodesInSeason)

calculateAbsoluteEpisode(userCurrentProgress, seasonInfo) ==
  calculateSeasonStartingOffset(seasonInfo) + userCurrentProgress

\* The conversion that counts episodes from 0.
absoluteEpisodeToSeasonEpisodeFromZero(absoluteEpisode, episodesPerSeason) ==
  [season |-> (absoluteEpisode \div episodesPerSeason) + 1,
   episode |-> JsRem(absoluteEpisode, episodesPerSeason) + 1]

absoluteEpisodeToSeasonEpisode(absoluteEpisode, episodesPerSeason) ==
  [season |-> ((absoluteEpisode - 1) \div episodesPerSeason) + 1,
   episode |-> JsRem(absoluteEpisode - 1, episodesPerSeason) + 1]

updateSeasonProgress(userCurrentProgress, seasonInfo) ==
  LET episodesPerSeason == OrTwelve(seasonInfo.episodesInSeason)
      absoluteEpisode == calculateAbsoluteEpisode(userCurrentProgress, seasonInfo)
      se == absoluteEpisodeToSeasonEpisode(absoluteEpisode, episodesPerSeason)
  IN  [episode |-> se.episode, season |-> se.season,
       isSeasonComplete |-> (se.episode = episodesPerSeason),
       totalProgress |-> userCurrentProgress, absoluteEpisode |-> absoluteEpisode]

\* ------------------------------------------------------ the media card
\* The items a card is rendered for.
TrackedItems ==
  {ShownItem(t, c, n, si) :
     t \in MediaType, c \in {Absent} \cup 0..MaxProgress,
     n \in {Absent, 0, MaxProgress - 1, MaxProgress}, si \in SeasonInfos}

ShownItems ==
  TrackedItems
    \cup {LegacyItem(item, season) :
            item \in {i \in TrackedItems : i.mediaType = Show /\ i.seasonInfo = NoSeason},
            season \in 0..MaxSeasons}

\* The card before it is rendered.
Card(item) ==
  [rendered |-> FALSE, item |-> item, primaryText |-> "", percent |-> Absent,
   seasonProgress |-> <<>>]

\* The mutation hooks at rest, with nobody signed in.
HooksIdle ==
  /\ user = FALSE
  /\ cache = <<>>
  /\ query = Idle
  /\ server = {}
  /\ muts = <<>>
  /\ nextId = 1

\* The card renders its texts and its progress bar.
Render ==
  /\ ~shown.rendered
  /\ shown.seasonProgress = <<>>
  /\ shown' = [shown EXCEPT !.rendered = TRUE,
                 !.primaryText = getPrimaryProgressText(shown.item),
                 !.percent = getProgressPercentage(shown.item)]
  /\ UNCHANGED <<vars, dialog, sideVars>>

\* updateSeasonProgress is applied to the progress of a season-tracked item.
SeasonProgress ==
  /\ ~shown.rendered
  /\ shown.seasonProgress = <<>>
  /\ shown.item.seasonInfo # NoSeason
  /\ shown.item.current # Absent
  /\ shown' = [shown EXCEPT !.seasonProgress =
                 <<updateSeasonProgress(shown.item.current, shown.item.seasonInfo)>>]
  /\ UNCHANGED <<vars, dialog, sideVars>>

DisplayInit ==
  /\ HooksIdle
  /\ dialog = NoDialog
  /\ debounce = NoDebounce
  /\ limiter = NoLimiter
  /\ shown \in {Card(item) : item \in ShownItems}

DisplayNext ==
  \/ Render
  \/ SeasonProgress

DisplaySpec == DisplayInit /\ [][DisplayNext]_<<vars, seasonVars, sideVars>>

\* ------------------------------------------------------ the edit dialog
\* The items the edit dialog is opened on.
DialogItems ==
  {ShownItem(t, c, n, si) :
     t \in {Show, Book}, c \in 0..MaxProgress,
     n \in {Absent, MaxProgress}, si \in SeasonInfos}

\* The component before it is opened on media: the useState defaults and an
\* empty form. submitted holds the data handed to onEdit; nav records the
\* season changes made in a row (direction and the season left); panels
\* counts the times the season editing panel was opened.
Dialog(media) ==
  [open |-> FALSE, media |-> media,
   currentProgress |-> Absent, totalProgress |-> Absent, seasonInfo |-> NoSeason,
   showSeasonCompleteMessage |-> FALSE, editingSeasons |-> FALSE, panels |-> 0,
   seasonCount |-> 1, seasonEpisodes |-> <<12>>,
   submitted |-> <<>>, nav |-> <<>>]

\* array[index - 1], undefined past the end
At(seasonEps, index) ==
  IF index \in 1..Len(seasonEps) THEN seasonEps[index] ELSE Absent

\* The effect on form.watch('currentProgress'): the value it gives
\* showSeasonCompleteMessage.
SeasonCompleteEffect(currentProgress, seasonInfo) ==
  /\ seasonInfo.episodesInSeason # 0
  /\ currentProgress = seasonInfo.episodesInSeason
  /\ seasonInfo.currentSeason # 0
  /\ seasonInfo.totalSeasons # 0
  /\ seasonInfo.currentSeason < seasonInfo.totalSeasons

\* The effect on [media, open]: the dialog opens on media.
OpenDialog ==
  /\ ~dialog.open
  /\ dialog.submitted = <<>>
  /\ LET media == dialog.media
         si == media.seasonInfo
         hasTable == Len(si.seasonEpisodes) > 0
         uniform == si.totalSeasons # 0 /\ si.episodesInSeason # 0
         relative == hasTable /\ si.currentSeason # 0
         displayCurrentProgress ==
           IF relative
             THEN OrZero(media.current) - SumFirst(si.seasonEpisodes, si.currentSeason - 1)
             ELSE OrZero(media.current)
         displayTotalProgress ==
           IF relative THEN At(si.seasonEpisodes, si.currentSeason)
           ELSE IF media.total = 0 THEN Absent ELSE media.total
     IN  dialog' = [dialog EXCEPT
           !.open = TRUE,
           !.seasonCount = IF hasTable THEN Len(si.seasonEpisodes)
                           ELSE IF uniform THEN si.totalSeasons ELSE @,
           !.seasonEpisodes = IF hasTable THEN si.seasonEpisodes
                              ELSE IF uniform
                                THEN [i \in 1..si.totalSeasons |-> si.episodesInSeason]
                                ELSE @,
           !.currentProgress = displayCurrentProgress,
           !.totalProgress = displayTotalProgress,
           !.seasonInfo = si,
           !.showSeasonCompleteMessage = SeasonCompleteEffect(displayCurrentProgress, si),
           !.nav = <<>>]
  /\ UNCHANGED <<vars, shown, sideVars>>

\* onChange of the current progress input with the number typed.
ChangeProgress(value) ==
  /\ dialog.open
  /\ LET \* Absent stands for Number.MAX_SAFE_INTEGER
         maxValue == IF dialog.seasonInfo.episodesInSeason # 0
                       THEN dialog.seasonInfo.episodesInSeason
                     ELSE IF dialog.totalProgress \in {Absent, 0}
                       THEN Absent ELSE dialog.totalProgress
         atLeast == IF value > 0 THEN value ELSE 0
         new == IF maxValue = Absent \/ atLeast < maxValue THEN atLeast ELSE maxValue
     IN  dialog' = [dialog EXCEPT
           !.currentProgress = new,
           !.showSeasonCompleteMessage =
              IF new = dialog.currentProgress THEN @
              ELSE SeasonCompleteEffect(new, dialog.seasonInfo),
           !.nav = <<>>]
  /\ UNCHANGED <<vars, shown, sideVars>>

\* The season controls are rendered for a Show or Anime whose seasonInfo has
\* a currentSeason; each button's disabled attribute.
SeasonControls(d) ==
  d.open /\ d.media.mediaType \in {Show, Anime} /\ d.seasonInfo.currentSeason # 0

PrevDisabled(d) == d.seasonInfo.currentSeason = 0 \/ d.seasonInfo.currentSeason <= 1

NextDisabled(d) ==
  \/ d.seasonInfo.currentSeason = 0
  \/ d.seasonInfo.totalSeasons = 0
  \/ d.seasonInfo.currentSeason >= d.seasonInfo.totalSeasons

\* The handler whose 'prev' stays on the season it is on.
handleSeasonChangeStay(d, direction) ==
  LET seasonInfo == d.seasonInfo
      newSeasonNumber == IF direction = "next" THEN seasonInfo.currentSeason + 1
                         ELSE seasonInfo.currentSeason
      inTable == At(seasonInfo.seasonEpisodes, newSeasonNumber)
      episodesInNewSeason == IF inTable \notin {Absent, 0} THEN inTable
                             ELSE OrTwelve(seasonInfo.episodesInSeason)
      updatedSeasonInfo == [seasonInfo EXCEPT !.currentSeason = newSeasonNumber,
                                              !.episodesInSeason = episodesInNewSeason]
  IN  IF seasonInfo.currentSeason = 0 THEN d
      ELSE IF newSeasonNumber < 1
              \/ (seasonInfo.totalSeasons # 0 /\ newSeasonNumber > seasonInfo.totalSeasons)
        THEN d
        ELSE [d EXCEPT
               !.seasonInfo = updatedSeasonInfo,
               !.currentProgress = 1,
               !.totalProgress = episodesInNewSeason,
               !.showSeasonCompleteMessage = FALSE]

\* handleSeasonChange(direction): the dialog it leaves.
handleSeasonChange(d, direction) ==
  LET seasonInfo == d.seasonInfo
      newSeasonNumber == IF direction = "next" THEN seasonInfo.currentSeason + 1
                         ELSE seasonInfo.currentSeason - 1
      inTable == At(seasonInfo.seasonEpisodes, newSeasonNumber)
      episodesInNewSeason == IF inTable \notin {Absent, 0} THEN inTable
                             ELSE OrTwelve(seasonInfo.episodesInSeason)
      updatedSeasonInfo == [seasonInfo EXCEPT !.currentSeason = newSeasonNumber,
                                              !.episodesInSeason = episodesInNewSeason]
  IN  IF seasonInfo.currentSeason = 0 THEN d
      ELSE IF newSeasonNumber < 1
              \/ (seasonInfo.totalSeasons # 0 /\ newSeasonNumber > seasonInfo.totalSeasons)
        THEN d
        ELSE [d EXCEPT
               !.seasonInfo = updatedSeasonInfo,
               !.currentProgress = 1,
               !.totalProgress = episodesInNewSeason,
               !.showSeasonCompleteMessage =
                  IF d.currentProgress = 1 THEN FALSE
                  ELSE SeasonCompleteEffect(1, updatedSeasonInfo)]

\* The season buttons a click can reach: the previous and next buttons while
\* not disabled, and the button of the season-complete message.
SeasonButton(d, direction) ==
  /\ SeasonControls(d)
  /\ \/ direction = "prev" /\ ~PrevDisabled(d)
     \/ direction = "next" /\ (~NextDisabled(d) \/ d.showSeasonCompleteMessage)

\* A click on one of the season buttons.
SeasonChange(direction) ==
  /\ SeasonButton(dialog, direction)
  /\ LET d == handleSeasonChange(dialog, direction)
         step == [direction |-> direction, from |-> dialog.seasonInfo.currentSeason]
     IN  dialog' = IF d = dialog THEN dialog
                   ELSE [d EXCEPT !.nav = IF Len(@) = 2 THEN <<@[2], step>>
                                          ELSE Append(@, step)]
  /\ UNCHANGED <<vars, shown, sideVars>>

\* The times the season editing panel is opened on one item.
MaxPanels == 1

\* onChange of the total progress input: value is the number typed, Absent
\* for an emptied input. A current progress above a non-zero total follows it.
ChangeTotal(value) ==
  /\ dialog.open
  /\ LET currentProgress == OrZero(dialog.currentProgress)
         follows == value \notin {Absent, 0} /\ currentProgress > value
     IN  dialog' = [dialog EXCEPT
           !.totalProgress = value,
           !.currentProgress = IF follows THEN value ELSE @,
           !.showSeasonCompleteMessage =
              IF follows THEN SeasonCompleteEffect(value, dialog.seasonInfo) ELSE @,
           !.nav = <<>>]
  /\ UNCHANGED <<vars, shown, sideVars>>

\* The "Edit Season Information" button of the season controls, and the
\* Cancel button of the editing panel (which keeps what was typed).
EditSeasons ==
  /\ SeasonControls(dialog)
  /\ ~dialog.editingSeasons
  /\ dialog.panels < MaxPanels
  /\ dialog' = [dialog EXCEPT !.editingSeasons = TRUE, !.panels = @ + 1, !.nav = <<>>]
  /\ UNCHANGED <<vars, shown, sideVars>>

CancelSeasonEdits ==
  /\ dialog.open
  /\ dialog.editingSeasons
  /\ dialog' = [dialog EXCEPT !.editingSeasons = FALSE, !.nav = <<>>]
  /\ UNCHANGED <<vars, shown, sideVars>>

\* parseInt(e.target.value) || fallback, for a number typed
ParsedOr(typed, fallback) == IF typed = 0 THEN fallback ELSE typed

\* array.slice(0, end): a negative end counts from the end of the array
SliceTo(seasonEps, end) ==
  LET stop == IF end < 0 THEN Len(seasonEps) + end ELSE end
      last == IF stop < 0 THEN 0 ELSE IF stop > Len(seasonEps) THEN Len(seasonEps) ELSE stop
  IN  SubSeq(seasonEps, 1, last)

\* handleSeasonCountChange(newCount): the dialog it leaves.
handleSeasonCountChange(d, newCount) ==
  [d EXCEPT
    !.seasonCount = newCount,
    !.seasonEpisodes =
       IF newCount > Len(@)
         THEN @ \o [i \in 1..(newCount - Len(@)) |-> 12]
         ELSE SliceTo(@, newCount)]

\* onChange of the number-of-seasons input of the editing panel. A count that
\* would leave no season in the table is not among the inputs.
SeasonCountChange(typed) ==
  /\ dialog.open
  /\ dialog.editingSeasons
  /\ LET d == handleSeasonCountChange(dialog, ParsedOr(typed, 1))
     IN  /\ Len(d.seasonEpisodes) > 0
         /\ dialog' = [d EXCEPT !.nav = <<>>]
  /\ UNCHANGED <<vars, shown, sideVars>>

\* handleSeasonEpisodesUpdate(seasonIndex, episodes), seasonIndex counted
\* from 0: the dialog it leaves.
handleSeasonEpisodesUpdate(d, seasonIndex, episodes) ==
  [d EXCEPT !.seasonEpisodes[seasonIndex + 1] = episodes]

\* onChange of one of the seasonCount per-season inputs of the editing panel.
SeasonEpisodesUpdate(seasonIndex, typed) ==
  /\ dialog.open
  /\ dialog.editingSeasons
  /\ seasonIndex < dialog.seasonCount
  /\ seasonIndex < Len(dialog.seasonEpisodes)
  /\ dialog' = [handleSeasonEpisodesUpdate(dialog, seasonIndex, ParsedOr(typed, 12))
                  EXCEPT !.nav = <<>>]
  /\ UNCHANGED <<vars, shown, sideVars>>

\* applySeasonEdits(): the dialog it leaves. The season-complete effect runs
\* again when the current progress was lowered.
applySeasonEdits(d) ==
  LET currentSeason == OrOne(d.seasonInfo.currentSeason)
      currentProgress == OrZero(d.currentProgress)
      inSeason == At(d.seasonEpisodes, currentSeason)
      seasonInfo == [d.seasonInfo EXCEPT
                       !.totalSeasons = d.seasonCount,
                       !.episodesInSeason = IF inSeason = Absent THEN 0 ELSE inSeason,
                       !.seasonEpisodes = d.seasonEpisodes]
      lowered == inSeason # Absent /\ currentProgress > inSeason
  IN  [d EXCEPT
        !.seasonInfo = seasonInfo,
        !.totalProgress = inSeason,
        !.currentProgress = IF lowered THEN inSeason ELSE @,
        !.showSeasonCompleteMessage =
           IF lowered THEN SeasonCompleteEffect(inSeason, seasonInfo) ELSE @,
        !.editingSeasons = FALSE]

\* The "Apply Changes" button of the editing panel.
ApplySeasonEdits ==
  /\ dialog.open
  /\ dialog.editingSeasons
  /\ dialog' = [applySeasonEdits(dialog) EXCEPT !.nav = <<>>]
  /\ UNCHANGED <<vars, shown, sideVars>>

\* handleSubmit(data): the data it hands to onEdit.
handleSubmit(data) ==
  IF Len(data.seasonInfo.seasonEpisodes) > 0
    THEN LET currentSeason == OrOne(data.seasonInfo.currentSeason)
             currentProgress == OrZero(data.currentProgress)
             seasonEps == data.seasonInfo.seasonEpisodes
         IN  [data EXCEPT
               !.currentProgress = SumFirst(seasonEps, currentSeason - 1) + currentProgress,
               !.totalProgress = SumFirst(seasonEps, Len(seasonEps))]
    ELSE data

\* editMediaSchema: currentProgress min(0), totalProgress min(1), both optional.
FormValid(d) ==
  /\ d.currentProgress = Absent \/ d.currentProgress >= 0
  /\ d.totalProgress = Absent \/ d.totalProgress >= 1

\* The form is submitted: form.handleSubmit validates, then handleSubmit
\* hands the data to onEdit and closes the dialog.
Submit ==
  /\ dialog.open
  /\ FormValid(dialog)
  /\ LET data == [currentProgress |-> dialog.currentProgress,
                  totalProgress |-> dialog.totalProgress,
                  seasonInfo |-> dialog.seasonInfo]
     IN  dialog' = [dialog EXCEPT !.open = FALSE, !.submitted = <<handleSubmit(data)>>]
  /\ UNCHANGED <<vars, shown, sideVars>>

\* The numbers typed into the total input (Absent for an emptied input), the
\* number-of-seasons input and the per-season inputs: zero, a negative number
\* and the numbers of the bounds.
TotalInputs == {Absent} \cup 0..MaxEpisodes

CountInputs == (-1)..MaxSeasons

EpisodeInputs == (-1)..MaxEpisodes

DialogInit ==
  /\ HooksIdle
  /\ shown = NoShown
  /\ debounce = NoDebounce
  /\ limiter = NoLimiter
  /\ dialog \in {Dialog(media) : media \in DialogItems}

DialogNext ==
  \/ OpenDialog
  \/ \E value \in 0..MaxProgress : ChangeProgress(value)
  \/ \E direction \in {"prev", "next"} : SeasonChange(direction)
  \/ Submit

DialogSpec == DialogInit /\ [][DialogNext]_<<vars, seasonVars, sideVars>>

\* ------------------------------------- the edit dialog with its editing panel
\* The dialog with every input it has: the above, the total input and the
\* season editing panel, opened on shows with a current season.
SeasonEditInfos ==
  {si \in SeasonInfos :
     /\ si.currentSeason \in 1..MaxSeasons
     /\ si.totalSeasons \in {0, MaxSeasons}
     /\ si.episodesInSeason \in {0, MaxEpisodes}
     /\ si.seasonEpisodes \in {<<>>, <<1, 2>>, <<2, 2>>}}

SeasonEditItems ==
  {ShownItem(Show, c, n, si) :
     c \in {1, 3}, n \in {Absent, MaxProgress}, si \in SeasonEditInfos}

SeasonEditInit ==
  /\ HooksIdle
  /\ shown = NoShown
  /\ debounce = NoDebounce
  /\ limiter = NoLimiter
  /\ dialog \in {Dialog(media) : media \in SeasonEditItems}

SeasonEditNext ==
  \/ DialogNext
  \/ \E value \in TotalInputs : ChangeTotal(value)
  \/ EditSeasons
  \/ CancelSeasonEdits
  \/ \E typed \in CountInputs : SeasonCountChange(typed)
  \/ \E seasonIndex \in 0..(MaxSeasons - 1), typed \in EpisodeInputs :
        SeasonEpisodesUpdate(seasonIndex, typed)
  \/ ApplySeasonEdits

SeasonEditSpec == SeasonEditInit /\ [][SeasonEditNext]_<<vars, seasonVars, sideVars>>

\* ====================================================== claims C11..C20
\* The item the submitted data is stored and shown as.
SubmittedItem ==
  ShownItem(dialog.media.mediaType, dialog.submitted[1].currentProgress,
            dialog.submitted[1].totalProgress, dialog.submitted[1].seasonInfo)

\* The form was submitted with season S = currentSeason within a table whose
\* counts are all at least 1 and episode K = currentProgress within season S.
SubmittedInTable ==
  /\ dialog.submitted # <<>>
  /\ Len(dialog.seasonInfo.seasonEpisodes) > 0
  /\ \A i \in 1..Len(dialog.seasonInfo.seasonEpisodes) :
        dialog.seasonInfo.seasonEpisodes[i] >= 1
  /\ dialog.seasonInfo.currentSeason \in 1..Len(dialog.seasonInfo.seasonEpisodes)
  /\ dialog.currentProgress >= 1
  /\ dialog.currentProgress
        <= dialog.seasonInfo.seasonEpisodes[dialog.seasonInfo.currentSeason]

\* C11: with a table of counts all >= 1, season S within the table and
\* 1 <= K <= table[S], the absolute progress the dialog computes on submit
\* is walked back by the display to season S, episode K.
C11_RoundTrip ==
  SubmittedInTable =>
    LET r == calculateCurrentSeasonAndEpisode(SubmittedItem)
    IN  /\ r.season = dialog.seasonInfo.currentSeason
        /\ r.episode = dialog.currentProgress

C11_Witness ==
  /\ SubmittedInTable
  /\ dialog.seasonInfo.currentSeason = 2
  /\ dialog.currentProgress = 2
  /\ dialog.submitted[1].currentProgress = 4

\* The card was rendered for an item with a per-season table and an absolute
\* progress of at least 1.
RenderedWithTable ==
  /\ shown.rendered
  /\ Len(shown.item.seasonInfo.seasonEpisodes) > 0
  /\ shown.item.current >= 1

\* C12: for a non-empty table and absolute progress N >= 1 the season the
\* display derives lies within the table, and when N exceeds the sum of the
\* table it is the last season at its last episode.
C12_FromAbsoluteClamps ==
  RenderedWithTable =>
    LET seasonEps == shown.item.seasonInfo.seasonEpisodes
        r == calculateCurrentSeasonAndEpisode(shown.item)
    IN  /\ r.season \in 1..Len(seasonEps)
        /\ shown.item.current > SumFirst(seasonEps, Len(seasonEps))
             => /\ r.season = Len(seasonEps)
                /\ r.episode = seasonEps[Len(seasonEps)]

C12_Witness ==
  /\ RenderedWithTable
  /\ shown.item.mediaType = Show
  /\ shown.item.seasonInfo.currentSeason = 1
  /\ shown.item.seasonInfo.seasonEpisodes = <<2, 2>>
  /\ shown.item.current = 5
  /\ shown.primaryText = "S2E2 of 2"

\* counts[1] + ... + counts[S - 1] for a season S within the table.
RECURSIVE CountsBefore(_, _)
CountsBefore(counts, S) ==
  IF S <= 1 THEN 0 ELSE CountsBefore(counts, S - 1) + counts[S - 1]

\* Eight seasons of 10 episodes, season 3, episode 7.
ScenarioB ==
  [currentProgress |-> 7, totalProgress |-> 10,
   seasonInfo |-> [currentSeason |-> 3, totalSeasons |-> 8, episodesInSeason |-> 10,
                   seasonEpisodes |-> <<10, 10, 10, 10, 10, 10, 10, 10>>]]

\* C13: the absolute progress of (S, K) is the sum of counts[1..S-1] plus K
\* where a table exists (the dialog's submit) and (S-1) * episodesInSeason + K
\* where none does (calculateAbsoluteEpisode); eight seasons of 10 episodes
\* give 27 for season 3, episode 7.
C13_ToAbsolute ==
  /\ (/\ dialog.submitted # <<>>
      /\ Len(dialog.seasonInfo.seasonEpisodes) > 0
      /\ dialog.seasonInfo.currentSeason \in 1..Len(dialog.seasonInfo.seasonEpisodes)
      /\ dialog.currentProgress >= 1)
       => dialog.submitted[1].currentProgress =
            CountsBefore(dialog.seasonInfo.seasonEpisodes, dialog.seasonInfo.currentSeason)
              + dialog.currentProgress
  /\ (/\ dialog.open
      /\ Len(dialog.seasonInfo.seasonEpisodes) = 0
      /\ dialog.seasonInfo.currentSeason >= 1
      /\ dialog.seasonInfo.episodesInSeason >= 1
      /\ dialog.currentProgress >= 1)
       => calculateAbsoluteEpisode(dialog.currentProgress, dialog.seasonInfo) =
            (dialog.seasonInfo.currentSeason - 1) * dialog.seasonInfo.episodesInSeason
              + dialog.currentProgress
  /\ dialog.submitted # <<>> =>
       /\ handleSubmit(ScenarioB).currentProgress = 27
       /\ calculateAbsoluteEpisode(
             7, [ScenarioB.seasonInfo EXCEPT !.seasonEpisodes = <<>>]) = 27

C13_Witness ==
  /\ dialog.submitted # <<>>
  /\ dialog.seasonInfo.seasonEpisodes = <<2, 1>>
  /\ dialog.seasonInfo.currentSeason = 2
  /\ dialog.currentProgress = 1
  /\ dialog.submitted[1].currentProgress = 3

\* The absolute progress computed for season S, episode K with the season
\* data of the open form: the dialog's submit where the form has a table,
\* calculateAbsoluteEpisode where it has none.
FormAbsolute(S, K) ==
  LET seasonInfo == [dialog.seasonInfo EXCEPT !.currentSeason = S]
  IN  IF Len(seasonInfo.seasonEpisodes) > 0
        THEN handleSubmit([currentProgress |-> K, totalProgress |-> dialog.totalProgress,
                           seasonInfo |-> seasonInfo]).currentProgress
        ELSE calculateAbsoluteEpisode(K, seasonInfo)

\* The seasons the conversion is asked about: those of the table, or of
\* totalSeasons where there is no table.
FormSeasons ==
  IF Len(dialog.seasonInfo.seasonEpisodes) > 0
    THEN 1..Len(dialog.seasonInfo.seasonEpisodes)
    ELSE 1..(MaxSeasons + 1)

\* C14: the absolute progress of (S, K) is strictly increasing in S for fixed
\* K and strictly increasing in K for fixed S, with every table and every
\* uniform episodesInSeason.
C14_ToAbsoluteMonotone ==
  dialog.open =>
    \A S \in FormSeasons : \A K \in 1..MaxProgress :
      /\ FormAbsolute(S, K + 1) > FormAbsolute(S, K)
      /\ (S + 1) \in FormSeasons => FormAbsolute(S + 1, K) > FormAbsolute(S, K)

\* The card was rendered for a season-tracked Show or Anime.
RenderedSeasonTracked ==
  /\ shown.rendered
  /\ shown.item.mediaType \in {Show, Anime}
  /\ shown.item.seasonInfo.currentSeason >= 1
  /\ shown.item.current # Absent

\* Season 3 of 8 seasons of 10 episodes with an absolute progress of 27.
ScenarioA ==
  ShownItem(Show, 27, 80,
            [currentSeason |-> 3, totalSeasons |-> 8, episodesInSeason |-> 10,
             seasonEpisodes |-> <<>>])

\* C15: for a season-tracked item without a table whose progress.current is
\* (S-1) * E + K with 1 <= K <= E, primaryText is "S{S}E{K} of {E}"; season
\* 3 of 8 with E = 10 and progress 27 of 80 gives "S3E7 of 10".
C15_UniformPrimaryText ==
  /\ (/\ RenderedSeasonTracked
      /\ Len(shown.item.seasonInfo.seasonEpisodes) = 0
      /\ shown.item.seasonInfo.episodesInSeason >= 1)
       => \A K \in 1..shown.item.seasonInfo.episodesInSeason :
            shown.item.current =
               (shown.item.seasonInfo.currentSeason - 1)
                  * shown.item.seasonInfo.episodesInSeason + K
              => shown.primaryText =
                   "S" \o ToString(shown.item.seasonInfo.currentSeason)
                       \o "E" \o ToString(K) \o " of "
                       \o ToString(shown.item.seasonInfo.episodesInSeason)
  /\ shown.rendered => getPrimaryProgressText(ScenarioA) = "S3E7 of 10"

\* p tenths of a percent is 100 * current / totalUnits rounded to one decimal.
IsPercentOf(p, current, totalUnits) ==
  LET diff == p * totalUnits - 1000 * current
  IN  2 * diff <= totalUnits /\ 2 * (0 - diff) <= totalUnits

\* C16: for a season-tracked item percentComplete is 100 * progress.current
\* / totalUnits rounded to one decimal, totalUnits being the sum of the table
\* (the total the dialogs store with a table) or totalSeasons *
\* episodesInSeason without one; scenario A gives 33.8.
C16_PercentOfWholeWork ==
  /\ (/\ RenderedSeasonTracked
      /\ Len(shown.item.seasonInfo.seasonEpisodes) > 0
      /\ shown.item.total = SumFirst(shown.item.seasonInfo.seasonEpisodes,
                                     Len(shown.item.seasonInfo.seasonEpisodes))
      /\ shown.item.total >= 1)
       => IsPercentOf(shown.percent, shown.item.current, shown.item.total)
  /\ (/\ RenderedSeasonTracked
      /\ Len(shown.item.seasonInfo.seasonEpisodes) = 0
      /\ shown.item.seasonInfo.totalSeasons >= 1
      /\ shown.item.seasonInfo.episodesInSeason >= 1)
       => IsPercentOf(shown.percent, shown.item.current,
                      shown.item.seasonInfo.totalSeasons
                         * shown.item.seasonInfo.episodesInSeason)
  /\ shown.rendered => getProgressPercentage(ScenarioA) = 338

\* C17: percentComplete is within [0, 100] for every item and does not
\* decrease when progress.current increases with total and seasonInfo fixed.
C17_PercentBoundedMonotone ==
  shown.rendered =>
    /\ shown.percent >= 0
    /\ shown.percent <= 1000
    /\ getProgressPercentage(
         [shown.item EXCEPT !.current = OrZero(shown.item.current) + 1]) >= shown.percent

\* The season data from which getProgressPercentage computes the percentage
\* without reading progress.total: no table, and currentSeason,
\* episodesInSeason and totalSeasons all set, on a Show or Anime.
UniformSeasonData(item) ==
  /\ item.mediaType \in {Show, Anime}
  /\ Len(item.seasonInfo.seasonEpisodes) = 0
  /\ item.seasonInfo.currentSeason # 0
  /\ item.seasonInfo.episodesInSeason # 0
  /\ item.seasonInfo.totalSeasons # 0

\* C18 as stated: with progress.total absent percentComplete is 0, for every
\* media kind and every progress.current.
C18_AbsentTotalIsZero ==
  (shown.rendered /\ shown.item.total = Absent) => shown.percent = 0

\* C18 as the code has it: with progress.total absent percentComplete is 0,
\* except for a Show or Anime with uniform season data, whose percentage is
\* that of (currentSeason - 1) * episodesInSeason + current episodes out of
\* totalSeasons * episodesInSeason.
C18_AbsentTotalIsZeroUnlessUniform ==
  (shown.rendered /\ shown.item.total = Absent) =>
    IF UniformSeasonData(shown.item)
      THEN IsPercentOf(shown.percent,
                       (shown.item.seasonInfo.currentSeason - 1)
                          * shown.item.seasonInfo.episodesInSeason
                          + OrZero(shown.item.current),
                       shown.item.seasonInfo.totalSeasons
                          * shown.item.seasonInfo.episodesInSeason)
      ELSE shown.percent = 0

C18_Witness ==
  /\ shown.rendered
  /\ shown.item.total = Absent
  /\ shown.item.mediaType = Anime
  /\ shown.item.current = 3
  /\ shown.item.seasonInfo.currentSeason = 1
  /\ shown.item.seasonInfo.episodesInSeason = 2
  /\ shown.item.seasonInfo.totalSeasons = 0
  /\ shown.percent = 0

\* The dialog after the user asks for the next or the previous season: the
\* handler's result where a button takes the click, the same dialog where
\* none does.
AfterSeasonChange(d, direction) ==
  IF SeasonButton(d, direction) THEN handleSeasonChange(d, direction) ELSE d

C20_AdvanceRetreatRestores ==
  /\ (/\ Len(dialog.nav) = 2
      /\ dialog.nav[1].direction = "next"
      /\ dialog.nav[2].direction = "prev")
       => dialog.seasonInfo.currentSeason = dialog.nav[1].from
  /\ SeasonButton(dialog, "next") =>
       LET advanced == handleSeasonChange(dialog, "next")
       IN  /\ SeasonButton(advanced, "prev")
           /\ handleSeasonChange(advanced, "prev").seasonInfo.currentSeason
                = dialog.seasonInfo.currentSeason

C20_Witness ==
  /\ Len(dialog.nav) = 2
  /\ dialog.nav[1] = [direction |-> "next", from |-> 1]
  /\ dialog.nav[2] = [direction |-> "prev", from |-> 2]
  /\ dialog.seasonInfo.currentSeason = 1
  /\ dialog.currentProgress = 1

\* ====================================================== claims C21..C30
\* The item useUpdateMedia puts in the held collection for the submitted data.
StoredItem ==
  UpdatedMedia(
    MediaItem(1, "a", InProgress, 1, Absent, dialog.media.current, dialog.media.total,
              dialog.media.seasonInfo),
    FormData("a", InProgress, dialog.submitted[1].currentProgress,
             dialog.submitted[1].totalProgress, dialog.submitted[1].seasonInfo),
    2)

\* The dialog was submitted right after a season change, to a season within
\* the table when there is one.
SavedAfterSeasonChange ==
  /\ dialog.submitted # <<>>
  /\ dialog.nav # <<>>
  /\ Len(dialog.seasonInfo.seasonEpisodes) > 0
       => dialog.seasonInfo.currentSeason <= Len(dialog.seasonInfo.seasonEpisodes)

\* C21: after an accepted advance or retreat to season S' followed by saving,
\* the stored absolute progress is counts[1] + ... + counts[S'-1] + 1 when a
\* per-season table exists, and (S'-1) * episodesInSeason + 1 when it does not.
C21_SavedSeasonStart ==
  SavedAfterSeasonChange =>
    LET seasonInfo == dialog.seasonInfo
    IN  StoredItem.current =
          IF Len(seasonInfo.seasonEpisodes) > 0
            THEN CountsBefore(seasonInfo.seasonEpisodes, seasonInfo.currentSeason) + 1
            ELSE (seasonInfo.currentSeason - 1) * seasonInfo.episodesInSeason + 1

\* The part of C21 that holds: with a per-season table.
C21_SavedSeasonStartInTable ==
  (SavedAfterSeasonChange /\ Len(dialog.seasonInfo.seasonEpisodes) > 0) =>
    StoredItem.current =
      CountsBefore(dialog.seasonInfo.seasonEpisodes, dialog.seasonInfo.currentSeason) + 1

\* No season tracking is engaged on the rendered item.
RenderedUntracked == shown.rendered /\ shown.item.seasonInfo.currentSeason = 0

\* "{word} {current} of {total}", an absent number printed as 0.
PlainText(word, item) ==
  word \o " " \o ToString(OrZero(item.current)) \o " of " \o ToString(OrZero(item.total))

\* C22 as stated: primaryText is "Page c of t" for Book, "Chapter c of t" for
\* Manga, and "Episode c of t" for Anime and Show without season tracking.
C22_PlainPrimaryText ==
  shown.rendered =>
    LET item == shown.item
    IN  /\ item.mediaType = Book => shown.primaryText = PlainText("Page", item)
        /\ item.mediaType = Manga => shown.primaryText = PlainText("Chapter", item)
        /\ (item.mediaType \in {Anime, Show} /\ RenderedUntracked)
             => shown.primaryText = PlainText("Episode", item)

\* C22 amended: the same for Book, Manga and Anime; a Show without season
\* tracking reads "Season s, Episode c", s the legacy season of the item and
\* 1 when it has none.
C22_PlainPrimaryTextButShow ==
  shown.rendered =>
    LET item == shown.item
    IN  /\ item.mediaType = Book => shown.primaryText = PlainText("Page", item)
        /\ item.mediaType = Manga => shown.primaryText = PlainText("Chapter", item)
        /\ (item.mediaType = Anime /\ RenderedUntracked)
             => shown.primaryText = PlainText("Episode", item)
        /\ (item.mediaType = Show /\ RenderedUntracked)
             => shown.primaryText =
                  "Season " \o ToString(IF item.seasons = Absent THEN 1 ELSE item.seasons)
                    \o ", Episode " \o ToString(OrZero(item.current))

C22_Witness ==
  /\ RenderedUntracked
  /\ shown.item.mediaType = Show
  /\ shown.item.seasons = 2
  /\ shown.item.current = 3
  /\ shown.primaryText = "Season 2, Episode 3"

\* updateSeasonProgress was applied to a progress P >= 1 of an item whose
\* seasonInfo has a currentSeason and an episodesInSeason.
SeasonProgressTaken ==
  /\ shown.seasonProgress # <<>>
  /\ shown.item.current >= 1
  /\ shown.item.seasonInfo.currentSeason >= 1
  /\ shown.item.seasonInfo.episodesInSeason >= 1

\* C23: updateSeasonProgress(P, seasonInfo) with P >= 1, currentSeason S and
\* episodesInSeason E returns a season and an episode with 1 <= episode <= E
\* and (season-1)*E + episode = (S-1)*E + P, reports isSeasonComplete
\* exactly when episode = E, and for 1 <= P <= E returns season S, episode P.
C23_SeasonProgress ==
  SeasonProgressTaken =>
    LET P == shown.item.current
        S == shown.item.seasonInfo.currentSeason
        E == shown.item.seasonInfo.episodesInSeason
        r == shown.seasonProgress[1]
    IN  /\ r.episode \in 1..E
        /\ (r.season - 1) * E + r.episode = (S - 1) * E + P
        /\ r.isSeasonComplete <=> (r.episode = E)
        /\ P <= E => (r.season = S /\ r.episode = P)

\* Progress 5 entered in season 2 of 2-episode seasons: season 4, episode 1.
C23_Witness ==
  /\ SeasonProgressTaken
  /\ shown.item.current = 5
  /\ shown.item.seasonInfo.currentSeason = 2
  /\ shown.item.seasonInfo.episodesInSeason = 2
  /\ shown.seasonProgress[1].season = 4
  /\ shown.seasonProgress[1].episode = 1
  /\ ~shown.seasonProgress[1].isSeasonComplete

\* C24: when an item is added with season tracking selected, the item that
\* addItem places in the held collection and sends to the remote store has
\* status InProgress and carries the seasonInfo of the add dialog with the
\* absolute progress and total computed from it.
C24_AddCarriesSeasonInfo ==
  [][\A k \in Calls :
       (SucceedsNow(k) /\ muts[k].op = "add" /\ muts[k].data.seasonInfo # NoSeason)
         => LET data == muts[k].data
                held == Find(cache', muts[k].result.mediaItemId)
                sent == muts[k].request.item
            IN  /\ Has(cache', muts[k].result.mediaItemId)
                /\ held.status = InProgress /\ sent.status = InProgress
                /\ held.current = OrZero(data.currentProgress)
                /\ sent.current = OrZero(data.currentProgress)
                /\ held.total = data.totalProgress /\ sent.total = data.totalProgress
                /\ held.seasonInfo = data.seasonInfo
                /\ sent.seasonInfo = data.seasonInfo]_vars

\* The part of C24 that holds: status, progress and total.
C24_AddCarriesProgress ==
  [][\A k \in Calls :
       (SucceedsNow(k) /\ muts[k].op = "add" /\ muts[k].data.seasonInfo # NoSeason)
         => LET data == muts[k].data
                held == Find(cache', muts[k].result.mediaItemId)
                sent == muts[k].request.item
            IN  /\ Has(cache', muts[k].result.mediaItemId)
                /\ held.status = InProgress /\ sent.status = InProgress
                /\ held.current = OrZero(data.currentProgress)
                /\ sent.current = OrZero(data.currentProgress)
                /\ held.total = data.totalProgress
                /\ sent.total = data.totalProgress]_vars

\* Every item of the collection has datePaused exactly when it is Paused.
PausedHasDate(coll) ==
  \A i \in 1..Len(coll) : (coll[i].datePaused # Absent) <=> (coll[i].status = Paused)

\* Every call so far is an addItem, updateItem or updateStatus that succeeded.
AllSucceeded ==
  /\ Calls # {}
  /\ \A k \in Calls :
       muts[k].op \in {"add", "update", "status"} /\ muts[k].phase = "success"

\* C25: from a collection in which every item has datePaused exactly when
\* its status is Paused, the same holds after any sequence of successful
\* addItem, updateItem and updateStatus operations.
C25_DatePausedIffPaused ==
  (PausedHasDate(InitialItems) /\ AllSucceeded) => PausedHasDate(cache)

\* C26: every progress written by updateItem after any sequence of edit
\* dialog operations followed by submit has current <= total whenever the
\* total is known.
C26_CurrentWithinTotal ==
  dialog.submitted # <<>> =>
    (StoredItem.total # Absent => StoredItem.current <= StoredItem.total)

\* C27: in every state of the edit dialog reached by advance, retreat,
\* changing the number of seasons and applying season edits, the form's
\* seasonInfo.currentSeason is within 1..totalSeasons whenever totalSeasons
\* is known.
C27_CurrentSeasonWithinTotal ==
  dialog.seasonInfo.totalSeasons # 0 =>
    dialog.seasonInfo.currentSeason \in 1..dialog.seasonInfo.totalSeasons

\* The table of seasonInfo has totalSeasons entries, each at least 1.
TableWellFormed(seasonInfo) ==
  /\ Len(seasonInfo.seasonEpisodes) = seasonInfo.totalSeasons
  /\ \A i \in 1..Len(seasonInfo.seasonEpisodes) : seasonInfo.seasonEpisodes[i] >= 1

\* This step applies the season edits of the editing panel.
AppliesSeasonEdits ==
  dialog.open /\ dialog.editingSeasons /\ dialog'.open /\ ~dialog'.editingSeasons
    /\ dialog'.seasonInfo = applySeasonEdits(dialog).seasonInfo

\* C28: whenever applying season edits in the edit dialog produces a
\* seasonInfo with a per-season table, the table's length equals totalSeasons
\* and every element is at least 1, for every sequence of season-count and
\* per-season inputs, zero and negative numbers included.
C28_AppliedTableWellFormed ==
  [][AppliesSeasonEdits => TableWellFormed(dialog'.seasonInfo)]_dialog

\* seasonInfo as the add dialog stores it: a currentSeason within
\* totalSeasons, and with a table, one entry of at least 1 per season and
\* episodesInSeason the entry of the current season.
StoredSeasonInfo(seasonInfo) ==
  /\ seasonInfo.currentSeason \in 1..seasonInfo.totalSeasons
  /\ seasonInfo.episodesInSeason >= 1
  /\ Len(seasonInfo.seasonEpisodes) > 0 =>
       /\ TableWellFormed(seasonInfo)
       /\ seasonInfo.episodesInSeason = seasonInfo.seasonEpisodes[seasonInfo.currentSeason]

\* C29: the season-complete prompt is shown exactly when the episode within
\* the current season equals that season's episode count and
\* currentSeason < totalSeasons.
C29_PromptIffSeasonComplete ==
  (dialog.open /\ StoredSeasonInfo(dialog.media.seasonInfo)) =>
    (dialog.showSeasonCompleteMessage
       <=> /\ dialog.currentProgress = dialog.seasonInfo.episodesInSeason
           /\ dialog.seasonInfo.currentSeason < dialog.seasonInfo.totalSeasons)

\* The part of C29 that holds: the prompt is never shown otherwise.
C29_PromptOnlyIfSeasonComplete ==
  (dialog.open /\ StoredSeasonInfo(dialog.media.seasonInfo)) =>
    (dialog.showSeasonCompleteMessage
       => /\ dialog.currentProgress = dialog.seasonInfo.episodesInSeason
          /\ dialog.seasonInfo.currentSeason < dialog.seasonInfo.totalSeasons)

\* seasonInfo with every episode count of zero or less replaced by 1.
CountsAtLeastOne(seasonInfo) ==
  [seasonInfo EXCEPT
     !.episodesInSeason = IF @ <= 0 THEN 1 ELSE @,
     !.seasonEpisodes = [i \in 1..Len(@) |-> IF @[i] <= 0 THEN 1 ELSE @[i]]]

\* The display walk of a season-tracked item with a table gives what it
\* gives with the zero counts of the table read as 1.
WalkReadsZeroAsOne ==
  (/\ shown.rendered
   /\ shown.item.mediaType \in {Show, Anime}
   /\ shown.item.seasonInfo.currentSeason # 0
   /\ Len(shown.item.seasonInfo.seasonEpisodes) > 0)
    => shown.primaryText =
         getPrimaryProgressText(
           [shown.item EXCEPT !.seasonInfo = CountsAtLeastOne(@)])

\* The season start offset, the total units and the absolute-to-season
\* conversion of an item whose episodesInSeason is 0 give what they give
\* with episodesInSeason 1.
OffsetsReadZeroAsOne ==
  (/\ shown.seasonProgress # <<>>
   /\ shown.item.seasonInfo.currentSeason >= 1
   /\ shown.item.seasonInfo.totalSeasons >= 1
   /\ shown.item.seasonInfo.episodesInSeason = 0)
    => LET seasonInfo == shown.item.seasonInfo
           asOne == CountsAtLeastOne(seasonInfo)
       IN  /\ shown.seasonProgress[1] = updateSeasonProgress(shown.item.current, asOne)
           /\ calculateSeasonStartingOffset(seasonInfo)
                = calculateSeasonStartingOffset(asOne)
           /\ calculateTotalShowEpisodes(seasonInfo) = calculateTotalShowEpisodes(asOne)

\* C30: in every season conversion (season start offset, total units,
\* absolute-to-season/episode and the display walk) an episode count supplied
\* as zero or negative is treated as 1.
C30_ZeroCountIsOne == WalkReadsZeroAsOne /\ OffsetsReadZeroAsOne

\* ====================================================== claims C31..C38
\* The ids of the collection, in order.
IdsOf(coll) == [i \in 1..Len(coll) |-> coll[i].mediaItemId]

\* This step is made by a mutation call: a call is made, or a call of the
\* given kinds moves on (its optimistic change, its commit or its rollback).
StepOfCall(ops) ==
  \/ CalledNow /\ muts'[Len(muts')].op \in ops
  \/ \E k \in Calls : muts'[k] # muts[k] /\ muts[k].op \in ops

\* C31: no updateItem, updateStatus, commit or rollback changes the id or
\* the dateAdded of an item that remains in the held collection.
C31_IdAndDateAddedKept ==
  [][/\ StepOfCall({"add", "update", "status", "delete"})
          => \A i \in 1..Len(cache), j \in 1..Len(cache') :
               cache[i].mediaItemId = cache'[j].mediaItemId
                 => cache[i].dateAdded = cache'[j].dateAdded
     /\ \A k \in Calls :
          (muts[k].op \in {"update", "status"} /\ SucceedsNow(k))
            => IdsOf(cache') = IdsOf(cache)]_vars

\* The part of C31 that holds: the optimistic change of a call and the item
\* its mutationFn returns carry the id and the dateAdded of the held item.
C31_HooksKeepIdAndDateAdded ==
  [][CalledNow /\ muts'[Len(muts')].op \in {"update", "status"}
       => /\ IdsOf(cache') = IdsOf(cache)
          /\ \A i \in 1..Len(cache) : cache'[i].dateAdded = cache[i].dateAdded
          /\ LET m == muts'[Len(muts')]
             IN  m.phase = "inflight"
                   => /\ m.result.mediaItemId = m.mediaId
                      /\ m.result.dateAdded = Find(cache, m.mediaId).dateAdded]_vars

\* C32: each call of addItem, updateItem, updateStatus or deleteItem issues
\* its remote write at most once, also when the write fails; a failed
\* addItem never leads to a second create request with another item id.
C32_WriteAtMostOnce ==
  [][\A k \in Calls :
       /\ muts'[k].writes <= 1
       /\ (muts[k].op = "add" /\ muts[k].writes >= 1 /\ muts'[k].writes > muts[k].writes)
            => muts'[k].request.item.mediaItemId = muts[k].request.item.mediaItemId]_vars

\* The part of C32 that holds: a call issues at most one write more than
\* the retries the mutation options allow, and no write after it settled.
C32_WritesWithinRetries ==
  [][\A k \in Calls :
       /\ muts'[k].writes <= 1 + RetryCount
       /\ Settled(muts[k]) => muts'[k].writes = muts[k].writes]_vars


\* ============================================ useDebouncedUpdateMediaStatus
\* The number of debouncedUpdate calls followed.
MaxDebounced == 3

\* An entry of pendingUpdatesRef and of the updates array handed to mutate.
Update(mediaId, newStatus) == [mediaId |-> mediaId, newStatus |-> newStatus]

HasKey(pending, mediaId) == \E i \in 1..Len(pending) : pending[i].mediaId = mediaId

\* A map whose set() leaves the value of a key it already holds.
MapSetKeepsFirst(pending, mediaId, newStatus) ==
  IF HasKey(pending, mediaId) THEN pending
  ELSE Append(pending, Update(mediaId, newStatus))

\* pendingUpdatesRef.current.set(mediaId, newStatus): a Map keeps its keys in
\* insertion order and set() on a held key replaces the value in place.
MapSet(pending, mediaId, newStatus) ==
  IF HasKey(pending, mediaId)
    THEN [i \in 1..Len(pending) |->
            IF pending[i].mediaId = mediaId THEN Update(mediaId, newStatus) ELSE pending[i]]
    ELSE Append(pending, Update(mediaId, newStatus))

\* debouncedUpdate's setQueryData: the optimistic change of the collection.
DebouncedCache(coll, mediaId, newStatus, t) ==
  [i \in 1..Len(coll) |->
     IF coll[i].mediaItemId = mediaId
       THEN [coll[i] EXCEPT
               !.status = newStatus,
               !.datePaused = IF newStatus = Paused THEN t ELSE coll[i].datePaused]
       ELSE coll[i]]

\* One element of updates.map(async ...): the promise of one item's write.
BatchWrite(coll, update) ==
  IF ~Has(coll, update.mediaId)
    THEN [update |-> update, request |-> NoRequest, phase |-> "rejected"]
    ELSE LET currentMedia == Find(coll, update.mediaId) IN
         [update |-> update,
          request |-> Request("PUT", ApiUpdateBody(currentMedia.mediaItemId,
                        FormData(currentMedia.name, update.newStatus, currentMedia.current,
                                 currentMedia.total, NoSeason))),
          phase |-> "inflight"]

\* mutation.mutate(updates): the batch mutation and its first run of
\* mutationFn. Without a user mutationFn throws, and throws again on its
\* retry: the batch ends in onError with no write issued. burst and prior
\* record the calls the batch stands for and the statuses before them.
BatchMutate(u, coll, updates, burst, prior) ==
  [updates |-> updates,
   writes |-> IF u THEN [i \in 1..Len(updates) |-> BatchWrite(coll, updates[i])] ELSE <<>>,
   phase |-> IF u THEN "pending" ELSE "error",
   burst |-> burst,
   prior |-> prior]

\* The hook as mounted: no timeout set, nothing pending, no batch started.
Mounted ==
  [mounted |-> TRUE, timer |-> FALSE, pending |-> <<>>, batches |-> <<>>,
   calls |-> 0, burst |-> <<>>, prior |-> <<>>]

hookVars == <<query, muts, nextId>>

\* debouncedUpdate(mediaId, newStatus)
DebouncedUpdate(mediaId, newStatus) ==
  /\ debounce.calls < MaxDebounced
  /\ IF ~user
       THEN UNCHANGED <<cache, debounce>>
       ELSE /\ cache' = DebouncedCache(cache, mediaId, newStatus, CallTime(debounce.calls))
            /\ debounce' =
                 [debounce EXCEPT
                    !.pending = MapSet(@, mediaId, newStatus),
                    !.timer = TRUE,
                    !.calls = @ + 1,
                    !.burst = Append(@, Update(mediaId, newStatus)),
                    !.prior = IF HasKey(@, mediaId) \/ ~Has(cache, mediaId) THEN @
                              ELSE Append(@, Update(mediaId, Find(cache, mediaId).status))]
  /\ UNCHANGED <<user, server, hookVars, seasonVars, limiter>>

\* The timeout set by the last debouncedUpdate runs, one second after it.
TimerFires ==
  /\ debounce.timer
  /\ debounce' =
       IF Len(debounce.pending) > 0
         THEN [debounce EXCEPT
                 !.timer = FALSE,
                 !.pending = <<>>,
                 !.batches = Append(@, BatchMutate(user, cache, debounce.pending,
                                                   debounce.burst, debounce.prior)),
                 !.burst = <<>>,
                 !.prior = <<>>]
         ELSE [debounce EXCEPT !.timer = FALSE]
  /\ UNCHANGED <<user, cache, server, hookVars, seasonVars, limiter>>

\* The route handler answers write i of batch b, or its fetch() fails: the
\* promise of that write is fulfilled or rejected.
WriteReply(b, i) ==
  /\ debounce.batches[b].writes[i].phase = "inflight"
  /\ \E r \in {ServerStatus(server, debounce.batches[b].writes[i].request), "failed"},
        handled \in BOOLEAN :
       /\ r # "failed" => handled
       /\ debounce' = [debounce EXCEPT
                         !.batches[b].writes[i].phase =
                            IF r = "ok" THEN "fulfilled" ELSE "rejected"]
       /\ server' = IF handled
                      THEN ServerDocs(server, debounce.batches[b].writes[i].request,
                                      ServerTime(b))
                      ELSE server
  /\ UNCHANGED <<user, cache, hookVars, seasonVars, limiter>>

\* Promise.allSettled resolves: mutationFn returns the results, whatever
\* they are, and the batch mutation succeeds. Nothing is done with them.
BatchSettle(b) ==
  /\ debounce.batches[b].phase = "pending"
  /\ \A i \in 1..Len(debounce.batches[b].writes) :
       debounce.batches[b].writes[i].phase # "inflight"
  /\ debounce' = [debounce EXCEPT !.batches[b].phase = "success"]
  /\ UNCHANGED <<user, cache, server, hookVars, seasonVars, limiter>>

\* The items a card can be dragged for, and an id the collection lost.
DebouncedIds == {InitialItems[i].mediaItemId : i \in 1..Len(InitialItems)} \cup {0}

DebounceInit ==
  /\ user \in BOOLEAN
  /\ cache = InitialItems
  /\ query = Idle
  /\ server = StoredDocs(FALSE)
  /\ muts = <<>>
  /\ nextId = Len(InitialItems) + 1
  /\ shown = NoShown
  /\ dialog = NoDialog
  /\ debounce = Mounted
  /\ limiter = NoLimiter

DebounceNext ==
  \/ \E mediaId \in DebouncedIds, newStatus \in MediaStatus :
       DebouncedUpdate(mediaId, newStatus)
  \/ TimerFires
  \/ \E b \in 1..Len(debounce.batches) :
       \E i \in 1..Len(debounce.batches[b].writes) : WriteReply(b, i)
  \/ \E b \in 1..Len(debounce.batches) : BatchSettle(b)

DebounceSpec == DebounceInit /\ [][DebounceNext]_<<vars, seasonVars, sideVars>>

\* ------------------------------------------------------- claims C33, C34
\* The items a burst of debouncedUpdate calls names, and the status of the
\* last call of the burst for an item.
BurstIds(burst) == {burst[i].mediaId : i \in 1..Len(burst)}

LastStatus(burst, mediaId) ==
  LET last == CHOOSE i \in 1..Len(burst) :
                /\ burst[i].mediaId = mediaId
                /\ \A j \in (i + 1)..Len(burst) : burst[j].mediaId # mediaId
  IN burst[last].newStatus

\* The writes a batch issued for an item.
WritesFor(batch, mediaId) ==
  {i \in 1..Len(batch.writes) :
     /\ batch.writes[i].request.method = "PUT"
     /\ batch.writes[i].request.item.mediaItemId = mediaId}

\* The requests issued so far, by batch and position.
IssuedWrites(d) ==
  {<<b, i>> \in (1..Len(d.batches)) \X (1..MaxDebounced) :
     i <= Len(d.batches[b].writes) /\ d.batches[b].writes[i].request.method = "PUT"}

\* C33: a debouncedUpdate call issues no remote write and starts no batch;
\* when the timeout of the last call of a burst runs, the batch started
\* stands for that burst and issues, for every item of the burst the
\* collection holds, exactly one write, carrying the status of the last call
\* for that item, and no write for anything else; no other step issues one.
C33_DebounceCoalesces ==
  [][/\ debounce'.calls > debounce.calls
          => /\ server' = server
             /\ debounce'.batches = debounce.batches
             /\ debounce'.timer
     /\ Len(debounce'.batches) > Len(debounce.batches)
          => LET batch == debounce'.batches[Len(debounce'.batches)] IN
               /\ debounce.timer /\ ~debounce'.timer
               /\ batch.burst = debounce.burst
               /\ \A mediaId \in BurstIds(batch.burst) :
                    Has(cache, mediaId)
                      => /\ Cardinality(WritesFor(batch, mediaId)) = 1
                         /\ \A i \in WritesFor(batch, mediaId) :
                              batch.writes[i].request.item.status
                                = LastStatus(batch.burst, mediaId)
               /\ \A i \in 1..Len(batch.writes) :
                    batch.writes[i].request.method = "PUT"
                      => batch.writes[i].request.item.mediaItemId \in BurstIds(batch.burst)
     /\ Len(debounce'.batches) = Len(debounce.batches)
          => IssuedWrites(debounce') = IssuedWrites(debounce)]_debounce

\* A burst of three calls over two held items, the first item named twice
\* with different statuses, was flushed as one batch of two writes.
C33_Witness ==
  \E b \in 1..Len(debounce.batches) :
    LET batch == debounce.batches[b] IN
      /\ Len(batch.burst) = 3
      /\ batch.burst[1].mediaId = batch.burst[3].mediaId
      /\ batch.burst[1].mediaId # batch.burst[2].mediaId
      /\ batch.burst[1].newStatus # batch.burst[3].newStatus
      /\ \A mediaId \in BurstIds(batch.burst) : Cardinality(WritesFor(batch, mediaId)) = 1
      /\ Len(batch.writes) = 2

\* Batch b settles in this step.
SettlesNow(b) ==
  debounce.batches[b].phase = "pending" /\ debounce'.batches[b].phase # "pending"

\* No debouncedUpdate call after the burst of batch b names the item.
NotChangedSince(b, mediaId) ==
  /\ mediaId \notin BurstIds(debounce.burst)
  /\ \A c \in (b + 1)..Len(debounce.batches) :
       mediaId \notin BurstIds(debounce.batches[c].burst)

\* C34: when a batch settles, every item whose write was rejected, and that
\* no later call changed, is held with the status it had before the burst.
C34_FailedDebouncedRolledBack ==
  [][\A b \in 1..Len(debounce.batches) :
       SettlesNow(b)
         => \A i \in 1..Len(debounce.batches[b].writes) :
              LET write == debounce.batches[b].writes[i] IN
                (/\ write.request.method = "PUT"
                 /\ write.phase = "rejected"
                 /\ NotChangedSince(b, write.update.mediaId))
                  => \E p \in 1..Len(debounce.batches[b].prior) :
                       /\ debounce.batches[b].prior[p].mediaId = write.update.mediaId
                       /\ Find(cache', write.update.mediaId).status
                            = debounce.batches[b].prior[p].newStatus]_debounce

\* What the hook does: the settling of a batch leaves the collection as the
\* debouncedUpdate calls made it.
C34_SettleLeavesCollection ==
  [][\A b \in 1..Len(debounce.batches) : SettlesNow(b) => cache' = cache]_debounce

\* ------------------------------------------------------------- claim C35
\* The collection after a deleteItem of the first item that the route handled
\* and whose response was lost: the retry met 404 and onError put the item
\* back, while its document is gone. The calls followed start from there.
ResyncInit ==
  /\ user = TRUE
  /\ cache = InitialItems
  /\ query = Idle
  /\ server = {InitialItems[i] : i \in 2..Len(InitialItems)}
  /\ muts = <<>>
  /\ nextId = Len(InitialItems) + 1
  /\ shown = NoShown
  /\ dialog = NoDialog
  /\ debounce = NoDebounce
  /\ limiter = NoLimiter

ResyncSpec == ResyncInit /\ [][Next]_vars

\* C35: no two entries of the held collection have the same id.
C35_IdsUnique ==
  \A i, j \in 1..Len(cache) : cache[i].mediaItemId = cache[j].mediaItemId => i = j

\* ========================================================= the add dialog
\* The season count and the episode count a new season gets.
DefaultEpisodes == 12
MaxSeasonCount == 20

\* The value typed into a number input; Absent is the emptied input.
TypedCounts == {Absent} \cup CountInputs
TypedEpisodes == {Absent} \cup EpisodeInputs

Clamp(lo, hi, val) == IF val < lo THEN lo ELSE IF val > hi THEN hi ELSE val

\* while (newEpisodes.length < count) newEpisodes.push(12)
PadTo(seasonEps, count) ==
  [i \in 1..(IF count > Len(seasonEps) THEN count ELSE Len(seasonEps)) |->
     IF i <= Len(seasonEps) THEN seasonEps[i] ELSE DefaultEpisodes]

\* AddMediaDialog on its details step for an Anime with season tracking
\* switched on: the useState values of the season controls.
AddDialog ==
  [open |-> TRUE, seasonCount |-> 1, seasonEpisodes |-> <<DefaultEpisodes>>,
   currentSeason |-> 1, currentEpisodeInSeason |-> 0, submitted |-> <<>>]

\* seasonEpisodes[currentSeason - 1] || 12
EpisodesOfCurrent(d) ==
  IF d.currentSeason <= Len(d.seasonEpisodes) /\ d.seasonEpisodes[d.currentSeason] # 0
    THEN d.seasonEpisodes[d.currentSeason] ELSE DefaultEpisodes

\* onChange of the season count input
AddSeasonCount(typed) ==
  /\ dialog.open
  /\ LET val == IF typed = Absent THEN 1 ELSE typed
         count == Clamp(1, MaxSeasonCount, val)
     IN  dialog' = [dialog EXCEPT
                      !.seasonCount = count,
                      !.seasonEpisodes = SubSeq(PadTo(@, count), 1, count),
                      !.currentSeason = IF @ > count THEN count ELSE @]
  /\ UNCHANGED <<vars, shown, sideVars>>

\* onChange of the episode count input of season i
AddSeasonEpisodes(i, typed) ==
  /\ dialog.open
  /\ i \in 1..dialog.seasonCount
  /\ LET val == IF typed = Absent THEN 1 ELSE typed
     IN  dialog' = [dialog EXCEPT !.seasonEpisodes[i] = IF val < 1 THEN 1 ELSE val]
  /\ UNCHANGED <<vars, shown, sideVars>>

\* onValueChange of the current season select
SelectCurrentSeason(value) ==
  /\ dialog.open
  /\ value \in 1..dialog.seasonCount
  /\ dialog' = [dialog EXCEPT !.currentSeason = value, !.currentEpisodeInSeason = 0]
  /\ UNCHANGED <<vars, shown, sideVars>>

\* onChange of the current episode input
ChangeCurrentEpisode(typed) ==
  /\ dialog.open
  /\ LET val == IF typed = Absent THEN 0 ELSE typed
     IN  dialog' = [dialog EXCEPT
                      !.currentEpisodeInSeason = Clamp(0, EpisodesOfCurrent(dialog), val)]
  /\ UNCHANGED <<vars, shown, sideVars>>

\* handleSubmit(data) with season tracking: the data handed to onAdd.
AddSubmitted(d) ==
  FormData("d", InProgress,
           SumFirst(d.seasonEpisodes, d.currentSeason - 1) + d.currentEpisodeInSeason,
           SumFirst(d.seasonEpisodes, Len(d.seasonEpisodes)),
           [currentSeason |-> d.currentSeason, totalSeasons |-> d.seasonCount,
            episodesInSeason |-> d.seasonEpisodes[d.currentSeason],
            seasonEpisodes |-> d.seasonEpisodes])

\* The form is submitted: onAdd(data), the dialog closes and its state is reset.
SubmitAdd ==
  /\ dialog.open
  /\ dialog' = [AddDialog EXCEPT !.open = FALSE, !.submitted = <<AddSubmitted(dialog)>>]
  /\ UNCHANGED <<vars, shown, sideVars>>

\* The item a card shows for a media item.
CardItem(mediaType, item) ==
  ShownItem(mediaType, item.current, item.total, item.seasonInfo)

\* The card of the added item: the item is the one useAddMedia builds from
\* the data handed to onAdd.
RenderAdded ==
  /\ ~dialog.open
  /\ ~shown.rendered
  /\ LET item == CardItem(Anime, NewMediaItem(0, dialog.submitted[1], 0))
     IN  shown' = [Card(item) EXCEPT
                     !.rendered = TRUE,
                     !.primaryText = getPrimaryProgressText(item),
                     !.percent = getProgressPercentage(item)]
  /\ UNCHANGED <<vars, dialog, sideVars>>

AddDialogInit ==
  /\ HooksIdle
  /\ shown = NoShown
  /\ dialog = AddDialog
  /\ debounce = NoDebounce
  /\ limiter = NoLimiter

AddDialogNext ==
  \/ \E typed \in TypedCounts : AddSeasonCount(typed)
  \/ \E i \in 1..MaxSeasons, typed \in TypedEpisodes : AddSeasonEpisodes(i, typed)
  \/ \E value \in 1..MaxSeasons : SelectCurrentSeason(value)
  \/ \E typed \in TypedEpisodes : ChangeCurrentEpisode(typed)
  \/ SubmitAdd
  \/ RenderAdded

AddDialogSpec == AddDialogInit /\ [][AddDialogNext]_<<vars, seasonVars, sideVars>>

\* ------------------------------------------------------------- claim C36
\* The data of an add submitted at season S > 1 with 0 episodes watched.
AtSeasonStart(data) ==
  /\ data.seasonInfo.currentSeason > 1
  /\ data.currentProgress
       = SumFirst(data.seasonInfo.seasonEpisodes, data.seasonInfo.currentSeason - 1)

\* C36: for the data the add dialog hands over at season S > 1 with 0
\* episodes watched, the season derived for display from the absolute
\* progress and the table is S.
C36_SeasonStartShownAsSeason ==
  (~dialog.open /\ AtSeasonStart(dialog.submitted[1]))
    => LET data == dialog.submitted[1]
           item == ShownItem(Anime, data.currentProgress, data.totalProgress, data.seasonInfo)
       IN  calculateCurrentSeasonAndEpisode(item).season = data.seasonInfo.currentSeason

\* What the display derives instead: the last episode of season S - 1.
C36_SeasonStartShownAsPrevious ==
  (~dialog.open /\ AtSeasonStart(dialog.submitted[1]))
    => LET data == dialog.submitted[1]
           S == data.seasonInfo.currentSeason
           item == ShownItem(Anime, data.currentProgress, data.totalProgress, data.seasonInfo)
           r == calculateCurrentSeasonAndEpisode(item)
       IN  r.season = S - 1 /\ r.episode = data.seasonInfo.seasonEpisodes[S - 1]

\* The card of the item as added never shows a season at all.
C36_AddedCardShowsNoSeason ==
  shown.rendered
    => shown.primaryText
         = "Episode " \o ToString(shown.item.current) \o " of " \o ToString(shown.item.total)

\* ------------------------------------------------------------- claim C37
\* The item is as the add dialog hands it over: a table of seasons with
\* episodes, a current season of the table and an absolute progress that is
\* the episodes of the seasons before plus a position within the season.
AsAdded(media) ==
  LET si == media.seasonInfo IN
    /\ media.mediaType = Show
    /\ Len(si.seasonEpisodes) > 0
    /\ \A i \in 1..Len(si.seasonEpisodes) : si.seasonEpisodes[i] >= 1
    /\ si.currentSeason \in 1..Len(si.seasonEpisodes)
    /\ si.totalSeasons = Len(si.seasonEpisodes)
    /\ si.episodesInSeason = si.seasonEpisodes[si.currentSeason]
    /\ media.current - SumFirst(si.seasonEpisodes, si.currentSeason - 1)
         \in 0..si.seasonEpisodes[si.currentSeason]

\* The dialog opens in this step.
OpensNow == ~dialog.open /\ dialog'.open

\* The season and episode the opened dialog shows are the walk's.
OpenedAsWalk ==
  LET r == calculateCurrentSeasonAndEpisode(dialog.media) IN
    /\ dialog'.seasonInfo.currentSeason = r.season
    /\ dialog'.currentProgress = r.episode

\* C37: the dialog opened on an item as added shows the season and the
\* episode within it that the walk of the table derives from the item.
C37_OpenedMatchesWalk ==
  [][(OpensNow /\ AsAdded(dialog.media)) => OpenedAsWalk]_dialog

\* Where the two agree: at least one episode of the current season watched.
C37_OpenedMatchesWalkPastStart ==
  [][(/\ OpensNow
      /\ AsAdded(dialog.media)
      /\ dialog.media.current
           > SumFirst(dialog.media.seasonInfo.seasonEpisodes,
                      dialog.media.seasonInfo.currentSeason - 1))
       => OpenedAsWalk]_dialog

\* The item stored by a save right after a season change, opened again: the
\* season a dialog shows for it is seasonInfo.currentSeason of the stored item.
C37_SavedMatchesWalk ==
  (SavedAfterSeasonChange /\ AsAdded(dialog.media))
    => StoredItem.seasonInfo.currentSeason
         = calculateCurrentSeasonAndEpisode(
             ShownItem(Show, StoredItem.current, StoredItem.total,
                       StoredItem.seasonInfo)).season

\* ======================================================= the rate limiter
\* The clock runs to MaxClock; the window and the request limits of
\* RATE_LIMITS are scaled down, search below media as in the code.
MaxClock == 5
WindowMs == 2
SearchMax == 2
MediaMax == 3

\* RATE_LIMITS.search and RATE_LIMITS.media, the configs middleware uses
RateLimits ==
  [search |-> [windowMs |-> WindowMs, maxRequests |-> SearchMax],
   media |-> [windowMs |-> WindowMs, maxRequests |-> MediaMax]]

\* getRateLimitIdentifier(request): a token prefix and an address
Identifiers == {"auth:a", "ip:b"}

\* rateLimitStore.get(identifier) of an identifier without a record
NoRecord == [count |-> 0, resetTime |-> Absent]

\* rateLimit whose limit test lets one request more through.
rateLimitOneMore(store, now, identifier, config) ==
  LET record == store[identifier] IN
    IF record = NoRecord \/ now > record.resetTime
      THEN LET newRecord == [count |-> 1, resetTime |-> now + config.windowMs]
           IN  [store |-> [store EXCEPT ![identifier] = newRecord],
                allowed |-> TRUE, remaining |-> config.maxRequests - 1,
                resetTime |-> newRecord.resetTime]
    ELSE IF record.count > config.maxRequests
      THEN [store |-> store, allowed |-> FALSE, remaining |-> 0,
            resetTime |-> record.resetTime]
      ELSE [store |-> [store EXCEPT ![identifier].count = @ + 1],
            allowed |-> TRUE, remaining |-> config.maxRequests - (record.count + 1),
            resetTime |-> record.resetTime]

\* rateLimit(identifier, config) at Date.now() = now: the store it leaves
\* and the result it returns.
rateLimit(store, now, identifier, config) ==
  LET record == store[identifier] IN
    IF record = NoRecord \/ now > record.resetTime
      THEN LET newRecord == [count |-> 1, resetTime |-> now + config.windowMs]
           IN  [store |-> [store EXCEPT ![identifier] = newRecord],
                allowed |-> TRUE, remaining |-> config.maxRequests - 1,
                resetTime |-> newRecord.resetTime]
    ELSE IF record.count >= config.maxRequests
      THEN [store |-> store, allowed |-> FALSE, remaining |-> 0,
            resetTime |-> record.resetTime]
      ELSE [store |-> [store EXCEPT ![identifier].count = @ + 1],
            allowed |-> TRUE, remaining |-> config.maxRequests - (record.count + 1),
            resetTime |-> record.resetTime]

\* The results so far for an identifier's current window record: the
\* requests allowed under each config and the requests refused.
NoTally == [search |-> 0, media |-> 0, refused |-> 0, windows |-> 0]

\* The server started: an empty rateLimitStore. last is the last response
\* of the middleware and tally the results by identifier.
Running ==
  [running |-> TRUE, now |-> 0,
   store |-> [identifier \in Identifiers |-> NoRecord],
   last |-> [identifier |-> "", config |-> "", allowed |-> TRUE, remaining |-> 0,
             resetTime |-> Absent, status |-> 0],
   tally |-> [identifier \in Identifiers |-> NoTally]]

otherVars == <<vars, seasonVars, debounce>>

\* Date.now() advances.
Tick ==
  /\ limiter.now < MaxClock
  /\ limiter' = [limiter EXCEPT !.now = @ + 1]
  /\ UNCHANGED otherVars

\* middleware(request) for an API request: the config by pathname, the
\* rateLimit call and the response, 429 or the continued request.
Middleware(identifier, name) ==
  /\ LET result == rateLimit(limiter.store, limiter.now, identifier, RateLimits[name])
         opened == result.allowed /\ result.store[identifier].count = 1
         before == IF opened THEN [NoTally EXCEPT
                                     !.windows = limiter.tally[identifier].windows + 1]
                   ELSE limiter.tally[identifier]
     IN  limiter' =
           [limiter EXCEPT
              !.store = result.store,
              !.last = [identifier |-> identifier, config |-> name,
                        allowed |-> result.allowed, remaining |-> result.remaining,
                        resetTime |-> result.resetTime,
                        status |-> IF result.allowed THEN 200 ELSE 429],
              !.tally[identifier] =
                 IF result.allowed THEN [before EXCEPT ![name] = @ + 1]
                 ELSE [before EXCEPT !.refused = IF @ < 1 THEN @ + 1 ELSE @]]
  /\ UNCHANGED otherVars

\* The cleanup interval's callback: the records past their resetTime go.
Cleanup ==
  /\ \E identifier \in Identifiers :
       /\ limiter.store[identifier] # NoRecord
       /\ limiter.now > limiter.store[identifier].resetTime
  /\ limiter' = [limiter EXCEPT
                   !.store = [identifier \in Identifiers |->
                                IF limiter.now > limiter.store[identifier].resetTime
                                  THEN NoRecord ELSE limiter.store[identifier]]]
  /\ UNCHANGED otherVars

LimiterInit ==
  /\ HooksIdle
  /\ shown = NoShown
  /\ dialog = NoDialog
  /\ debounce = NoDebounce
  /\ limiter = Running

LimiterNext ==
  \/ Tick
  \/ \E identifier \in Identifiers, name \in {"search", "media"} :
       Middleware(identifier, name)
  \/ Cleanup

LimiterSpec == LimiterInit /\ [][LimiterNext]_<<vars, seasonVars, sideVars>>

\* ------------------------------------------------------------- claim C38
\* The step is a middleware call for the identifier.
LimitedNow(identifier) ==
  /\ limiter'.last.identifier = identifier
  /\ limiter'.last # limiter.last \/ limiter'.tally # limiter.tally

\* The identifier's record is past its resetTime.
Expired(identifier) ==
  /\ limiter.store[identifier] # NoRecord
  /\ limiter.now > limiter.store[identifier].resetTime

\* C38: within one window record of an identifier at most maxRequests
\* requests are allowed under each config, and no more than the greater
\* limit altogether; the remaining count reported is never negative; the
\* first request that arrives after the resetTime of the identifier's record
\* is allowed and starts a new window of windowMs from its arrival.
C38_RateLimiter ==
  /\ [](\A identifier \in Identifiers :
          /\ limiter.tally[identifier].search <= RateLimits.search.maxRequests
          /\ limiter.tally[identifier].media <= RateLimits.media.maxRequests
          /\ limiter.tally[identifier].search + limiter.tally[identifier].media
               <= RateLimits.media.maxRequests
          /\ limiter.tally[identifier].search + limiter.tally[identifier].media
               = limiter.store[identifier].count
             \/ limiter.store[identifier] = NoRecord)
  /\ [](limiter.last.remaining >= 0)
  /\ [][\A identifier \in Identifiers :
          (LimitedNow(identifier) /\ Expired(identifier))
            => /\ limiter'.last.allowed
               /\ limiter'.last.status = 200
               /\ limiter'.store[identifier]
                    = [count |-> 1, resetTime |-> limiter.now + WindowMs]
               /\ limiter'.tally[identifier].windows
                    = limiter.tally[identifier].windows + 1]_limiter

\* One identifier has used up its window and had a request refused, while
\* the other was just allowed the first request of its second window.
C38_Witness ==
  \E identifier, other \in Identifiers :
    /\ limiter.tally[identifier].refused = 1
    /\ limiter.tally[identifier].search + limiter.tally[identifier].media = MediaMax
    /\ limiter.last.identifier = other
    /\ limiter.last.allowed
    /\ limiter.tally[other].windows = 2
    /\ limiter.store[other].count = 1

====
